---- MODULE Spec2Model ----
(***************************************************************************)
(* A model of the nightshift FUSE driver: the inode / dir_entry / block    *)
(* tables, the query layer over them, the write-buffering file handles and *)
(* the driver's request handlers.                                          *)
(*                                                                         *)
(* Sizes are scaled down: BLOCK_SIZE is 128 KiB and the handle buffer is   *)
(* 16 blocks in the source; the model keeps the buffer a whole number of   *)
(* blocks and makes both small.                                            *)
(***************************************************************************)
EXTENDS Integers, Sequences, FiniteSets, TLC

VARIABLES
    db,          \* the database: [inode, dir_entry, block, seq]
    handles,     \* FuseDriver.handles: slab key -> FileHandle
    slab,        \* the slab's bookkeeping: [len, free] (free = vacant keys, next first)
    cfg,         \* [compression, overflow_checks]: fixed at construction / build
    alive,       \* FALSE once a request has panicked
    reply,       \* the last request and what it returned
    hist,        \* scenario bookkeeping of the sequential write/read runs
    budget       \* the number of requests the run may still serve

vars == <<budget, db, handles, slab, cfg, alive, reply, hist>>

(***************************************************************************)
(* Bounds of the model.                                                    *)
(***************************************************************************)
BLOCK_SIZE == 3
BlocksPerBuffer == 2
MaxIno == 3
MaxSize == 7
MaxEntries == 3
MaxNlink == 4
MaxRequests == 5
MaxFileRequests == 4
MaxSeqRequests == 6
MaxHandles == 2
MaxOffset == 1
MaxDirRequests == 7
MaxCursor == 3
MaxStop == 4
NumTags == 2
MaxBno == 1
MaxLinkRequests == 5
MaxByte == 2
MaxSrc == 3

BUFFER_SIZE == BlocksPerBuffer * BLOCK_SIZE
POSIX_BLOCK_SIZE == 512

Names == {"a", "b"}
Inos == 1..MaxIno
Compressions == {"None", "LZ4", "Zstd"}

(***************************************************************************)
(* Byte strings.                                                           *)
(***************************************************************************)
Min(a, b) == IF a < b THEN a ELSE b
Max(a, b) == IF a > b THEN a ELSE b
Take(s, n) == SubSeq(s, 1, n)
Drop(s, n) == SubSeq(s, n + 1, Len(s))
Zeros(n) == [i \in 1..n |-> 0]
\* A division that rounds down.
CeilDiv_Floor(a, b) == a \div b

CeilDiv(a, b) == (a + b - 1) \div b

\* let value = ..; body
Let(value, Body(_)) == Body(value)

\* Vec::resize(n, 0): truncates a longer vector, zero-extends a shorter one.
Resize(s, n) == IF Len(s) >= n THEN Take(s, n) ELSE s \o Zeros(n - Len(s))

\* The byte strings requests carry: tag t, length n; every position differs
\* from its neighbours and no byte is zero.
Pattern(t, n) == [i \in 1..n |-> ((t + i) % (BLOCK_SIZE + 2)) + 1]

(***************************************************************************)
(* Block (queries/block.rs).                                               *)
(***************************************************************************)
BlockEmpty(ino, bno) == [ino |-> ino, bno |-> bno, data |-> <<>>]
OffsetToBno(offset) == offset \div BLOCK_SIZE
StartOffset(b) == b.bno * BLOCK_SIZE
EndOffset(b) == (b.bno + 1) * BLOCK_SIZE

\* available(): BLOCK_SIZE - len as u64, then u32::try_from(..).expect(..):
\* a block longer than BLOCK_SIZE panics in every build.
AvailablePanics(b) == Len(b.data) > BLOCK_SIZE
Available(b) == BLOCK_SIZE - Len(b.data)

\* consume(data) -> written
Consume(b, data) ==
    IF AvailablePanics(b)
    THEN [panic |-> TRUE, block |-> b, written |-> 0]
    ELSE LET w == Min(Available(b), Len(data))
         IN [panic |-> FALSE,
             block |-> [b EXCEPT !.data = b.data \o Take(data, w)],
             written |-> w]

\* A write_at that appends to the block as it is, never resizing it.
WriteAt_Append(b, inode_offset, data) ==
    IF inode_offset - StartOffset(b) < 0
    THEN [panic |-> TRUE, block |-> b, written |-> 0, diff |-> 0]
    ELSE Let(Consume(b, data),
             LAMBDA r : [panic |-> r.panic,
                         block |-> r.block,
                         written |-> r.written,
                         diff |-> Len(r.block.data) - Len(b.data)])

\* write_at(inode_offset, data) -> (written, diff)
WriteAt(b, inode_offset, data) ==
    IF inode_offset - StartOffset(b) < 0
    \* u64 underflow: a panic with overflow checks, a resize to an
    \* unallocatable length without them.
    THEN [panic |-> TRUE, block |-> b, written |-> 0, diff |-> 0]
    ELSE Let(Consume([b EXCEPT !.data = Resize(b.data, inode_offset - StartOffset(b))],
                     data),
             LAMBDA r : [panic |-> r.panic,
                         block |-> r.block,
                         written |-> r.written,
                         diff |-> Len(r.block.data) - Len(b.data)])

\* copy_into(dest, offset) with dest.capacity() = cap -> dest after the copy
CopyInto(b, dest, cap, offset) ==
    LET rel == Max(0, offset - StartOffset(b))
        remaining == cap - Len(dest)
    IN IF Len(b.data) < rel
       \* usize underflow with overflow checks, slice start out of range
       \* without them.
       THEN [panic |-> TRUE, dest |-> dest]
       ELSE LET w == Min(remaining, Len(b.data) - rel)
            IN [panic |-> FALSE, dest |-> dest \o SubSeq(b.data, rel + 1, rel + w)]

\* truncate(inode_offset)
BlockTruncate(b, inode_offset, checks) ==
    LET rel == inode_offset - StartOffset(b)
    IN IF rel < 0
       THEN [panic |-> checks, block |-> b]
       ELSE [panic |-> FALSE, block |-> [b EXCEPT !.data = Take(b.data, Min(rel, Len(b.data)))]]

(***************************************************************************)
(* Compression at the row boundary.  A stored row is                       *)
(* [frame |-> [codec, raw], compression |-> tag]: the frame is what the    *)
(* codec produced from raw.                                                *)
(***************************************************************************)
Compress(b, compression) ==
    [frame |-> [codec |-> compression, raw |-> b.data], compression |-> compression]

\* CompressedBlock::decompress.  None copies the bytes; LZ4 decodes into a
\* BLOCK_SIZE scratch and truncates to the decoded length; Zstd copy_decode
\* writes into `&mut Vec<u8>`, which appends after the BLOCK_SIZE zeros the
\* vector was created with.
Decompress(row, ino, bno) ==
    [ino |-> ino, bno |-> bno,
     data |-> CASE row.compression = "None" -> row.frame.raw
                [] row.compression = "LZ4" -> row.frame.raw
                [] row.compression = "Zstd" -> Zeros(BLOCK_SIZE) \o row.frame.raw]

\* lz4_flex::decompress_into(..).expect(..): a frame that decodes to more
\* than the BLOCK_SIZE scratch panics.
DecompressPanics(row) == row.compression = "LZ4" /\ Len(row.frame.raw) > BLOCK_SIZE

(***************************************************************************)
(* Results of the query layer and of the handlers: err is "Ok" or the      *)
(* Error variant (errors.rs), or "Panic" when the call unwinds.            *)
(***************************************************************************)
Res(err, d, val) == [err |-> err, db |-> d, val |-> val]
Ok(d, val) == Res("Ok", d, val)
Fail(err, d) == Res(err, d, <<>>)
Failed(r) == r.err # "Ok"

\* Error::errno
Errno(err) ==
    CASE err = "NotEmpty" -> "ENOTEMPTY"
      [] err = "NotFound" -> "ENOENT"
      [] err = "InvalidArgument" -> "EINVAL"
      [] err = "Overflow" -> "EOVERFLOW"
      [] OTHER -> "ENOTSUP"

\* rusqlite's ToSql for u64: a value above i64::MAX is refused.  The model
\* keeps a u64 that wrapped below zero as the negative number it stands for.
U64Storable(v) == v >= 0

EmptyDb == [inode |-> <<>>, dir_entry |-> <<>>, block |-> <<>>, seq |-> 0]

Remove(f, k) == [x \in DOMAIN f \ {k} |-> f[x]]

(***************************************************************************)
(* The schema's referential actions and constraints.                       *)
(***************************************************************************)
\* ON DELETE CASCADE from inode to dir_entry (ino and parent_ino) and block.
DeleteCascade(d, ino) ==
    [d EXCEPT
        !.dir_entry = SelectSeq(d.dir_entry,
                                LAMBDA e: e.ino # ino /\ e.parent_ino # ino),
        !.block = [k \in {x \in DOMAIN d.block : x[1] # ino} |-> d.block[k]]]

\* FOREIGN KEY(parent_ino), FOREIGN KEY(ino) and UNIQUE(parent_ino, name)
\* of dir_entry, for a row about to be written; `but` is the index of the
\* row it replaces (0 for an insert).
DirEntryConstraintsOk(d, row, but) ==
    /\ row.parent_ino \in DOMAIN d.inode
    /\ row.ino \in DOMAIN d.inode
    /\ \A i \in DOMAIN d.dir_entry :
          i # but => ~(d.dir_entry[i].parent_ino = row.parent_ino
                       /\ d.dir_entry[i].name = row.name)

\* FOREIGN KEY(ino) and PRIMARY KEY(ino, bno) of block, for an insert.
BlockConstraintsOk(d, ino, bno) ==
    /\ ino \in DOMAIN d.inode
    /\ <<ino, bno>> \notin DOMAIN d.block

\* write_tx / read_tx: commit on success, roll back otherwise.
WithWriteTx(d, r) == IF r.err = "Ok" THEN r.db ELSE d
WithReadTx(d, r) == d

(***************************************************************************)
(* queries/inode.rs                                                        *)
(***************************************************************************)
InodeLookup(d, ino) ==
    IF ino \in DOMAIN d.inode THEN Ok(d, d.inode[ino]) ELSE Fail("NotFound", d)

InodeCreate_Rowid(d, attr) ==
    LET ino == Max(0, CHOOSE m \in DOMAIN d.inode \cup {0} :
                         \A k \in DOMAIN d.inode : k <= m) + 1
        row == [attr EXCEPT !.ino = ino]
    IN Ok([d EXCEPT !.inode = (ino :> row) @@ d.inode, !.seq = ino], row)

\* INSERT with AUTOINCREMENT: the new key is above every key ever used.
InodeCreate(d, attr) ==
    LET ino == d.seq + 1
        row == [attr EXCEPT !.ino = ino]
    IN Ok([d EXCEPT !.inode = (ino :> row) @@ d.inode, !.seq = ino], row)

InodeSetAttr(d, ino, name, value) ==
    IF ~U64Storable(value) THEN Fail("Other", d)
    ELSE IF ino \notin DOMAIN d.inode THEN Fail("NotFound", d)
    ELSE Ok([d EXCEPT !.inode[ino][name] = value], <<>>)

InodeRemove_NoCascade(d, ino) ==
    IF ino \notin DOMAIN d.inode THEN Fail("NotFound", d)
    ELSE Ok([d EXCEPT !.inode = Remove(d.inode, ino)], <<>>)

InodeRemove(d, ino) ==
    IF ino \notin DOMAIN d.inode THEN Fail("NotFound", d)
    ELSE Ok(DeleteCascade([d EXCEPT !.inode = Remove(d.inode, ino)], ino), <<>>)

(***************************************************************************)
(* queries/dir_entry.rs                                                    *)
(***************************************************************************)
EntryIndex(d, parent_ino, name) ==
    {i \in DOMAIN d.dir_entry :
        d.dir_entry[i].parent_ino = parent_ino /\ d.dir_entry[i].name = name}

HasEntry(d, parent_ino, name) == EntryIndex(d, parent_ino, name) # {}

DirEntryLookup(d, parent_ino, name) ==
    IF HasEntry(d, parent_ino, name)
    THEN Ok(d, d.dir_entry[CHOOSE i \in EntryIndex(d, parent_ino, name) : TRUE].ino)
    ELSE Fail("NotFound", d)

\* The rowid an INSERT into dir_entry gets: the table has no INTEGER PRIMARY
\* KEY, so it is one above the largest rowid present.  The rows are kept in
\* rowid order, so the largest is the last.
NextRowid(d) ==
    IF d.dir_entry = <<>> THEN 1 ELSE d.dir_entry[Len(d.dir_entry)].rowid + 1

\* INSERT: the new row gets a rowid above every present one, so it is last.
DirEntryCreate(d, parent_ino, name, ino) ==
    LET row == [rowid |-> NextRowid(d),
                parent_ino |-> parent_ino, name |-> name, ino |-> ino]
    IN IF DirEntryConstraintsOk(d, row, 0)
       THEN Ok([d EXCEPT !.dir_entry = Append(d.dir_entry, row)], <<>>)
       ELSE Fail("Other", d)

DirEntryRemove(d, parent_ino, name) ==
    IF HasEntry(d, parent_ino, name)
    THEN Ok([d EXCEPT !.dir_entry =
                SelectSeq(d.dir_entry,
                          LAMBDA e: ~(e.parent_ino = parent_ino /\ e.name = name))],
            <<>>)
    ELSE Fail("NotFound", d)

\* A rename that, like remove, turns zero affected rows into NotFound.
DirEntryRename_NotFound(d, parent, name, new_parent, new_name) ==
    IF ~HasEntry(d, parent, name) THEN Fail("NotFound", d)
    ELSE LET i == CHOOSE i \in EntryIndex(d, parent, name) : TRUE
             row == [d.dir_entry[i] EXCEPT !.parent_ino = new_parent,
                                           !.name = new_name]
         IN IF DirEntryConstraintsOk(d, row, i)
            THEN Ok([d EXCEPT !.dir_entry[i] = row], <<>>)
            ELSE Fail("Other", d)

DirEntryRename_KeepsSource(d, parent, name, new_parent, new_name) ==
    IF ~HasEntry(d, parent, name) THEN Ok(d, <<>>)
    ELSE LET i == CHOOSE i \in EntryIndex(d, parent, name) : TRUE
             row == [d.dir_entry[i] EXCEPT !.parent_ino = new_parent,
                                           !.name = new_name,
                                           !.rowid = NextRowid(d)]
         IN IF DirEntryConstraintsOk(d, row, i)
            THEN Ok([d EXCEPT !.dir_entry = Append(d.dir_entry, row)], <<>>)
            ELSE Fail("Other", d)

DirEntryRename_Reinsert(d, parent, name, new_parent, new_name) ==
    IF ~HasEntry(d, parent, name) THEN Ok(d, <<>>)
    ELSE LET i == CHOOSE i \in EntryIndex(d, parent, name) : TRUE
             row == [d.dir_entry[i] EXCEPT !.parent_ino = new_parent,
                                           !.name = new_name,
                                           !.rowid = NextRowid(d)]
         IN IF DirEntryConstraintsOk(d, row, i)
            THEN Ok([d EXCEPT !.dir_entry =
                        Append(SelectSeq(d.dir_entry, LAMBDA e : e # d.dir_entry[i]),
                               row)],
                    <<>>)
            ELSE Fail("Other", d)

\* UPDATE .. WHERE parent_ino = ? AND name = ?: no matching row is no error.
DirEntryRename(d, parent, name, new_parent, new_name) ==
    IF ~HasEntry(d, parent, name) THEN Ok(d, <<>>)
    ELSE LET i == CHOOSE i \in EntryIndex(d, parent, name) : TRUE
             row == [d.dir_entry[i] EXCEPT !.parent_ino = new_parent,
                                           !.name = new_name]
         IN IF DirEntryConstraintsOk(d, row, i)
            THEN Ok([d EXCEPT !.dir_entry[i] = row], <<>>)
            ELSE Fail("Other", d)

\* The rows list-dir.sql selects for (parent_ino, offset): the rows of the
\* directory whose rowid is strictly greater than the cursor, in rowid order,
\* each with its rowid as offset and joined with its inode's kind.
ListDirFrom(d, parent_ino, offset) ==
    Let(SelectSeq(d.dir_entry,
                  LAMBDA e : e.parent_ino = parent_ino /\ e.rowid > offset),
        LAMBDA rows :
        [i \in 1..Len(rows) |->
            [offset |-> rows[i].rowid, ino |-> rows[i].ino, name |-> rows[i].name,
             kind |-> d.inode[rows[i].ino].kind]])

\* list_dir(tx, parent_ino, offset, iter) with an iter that returns false on
\* the stop-th entry it is handed: the entries handed to iter, the loop
\* breaking after the one that iter answers with false.
ListDirIter(d, parent_ino, offset, stop) ==
    Let(ListDirFrom(d, parent_ino, offset), LAMBDA es :
        Ok(d, Take(es, Min(stop, Len(es)))))

\* list_dir from cursor 0 with an iter that never stops: the rows of the
\* directory in rowid order, each joined with its inode's kind.
ListDir(d, parent_ino) ==
    Let(ListDirFrom(d, parent_ino, 0), LAMBDA es :
        [i \in 1..Len(es) |->
            [ino |-> es[i].ino, name |-> es[i].name, kind |-> es[i].kind]])

IsDirEmpty(d, ino) == ~(\E i \in DOMAIN d.dir_entry : d.dir_entry[i].parent_ino = ino)

(***************************************************************************)
(* queries/block.rs                                                        *)
(***************************************************************************)
BlockRows(d, ino) == {k \in DOMAIN d.block : k[1] = ino}

\* The bnos of ino's rows that are >= bno, ascending.
RECURSIVE SortedBnos(_)
SortedBnos(S) ==
    IF S = {} THEN <<>>
    ELSE LET m == CHOOSE x \in S : \A y \in S : x <= y
         IN <<m>> \o SortedBnos(S \ {m})

BnosFrom(d, ino, bno) == SortedBnos({k[2] : k \in {x \in BlockRows(d, ino) : x[2] >= bno}})

GetBlock(d, ino, bno) ==
    IF <<ino, bno>> \in DOMAIN d.block
    THEN IF DecompressPanics(d.block[<<ino, bno>>]) THEN Fail("Panic", d)
         ELSE Ok(d, Decompress(d.block[<<ino, bno>>], ino, bno))
    ELSE Fail("NotFound", d)

\* iter_blocks_from hands every row to the callback as a Block whose bno is
\* offset_to_bno(offset), the bno the scan started from, whatever the row's
\* own bno is.
IterBlockAt(d, ino, offset, row_bno) ==
    Decompress(d.block[<<ino, row_bno>>], ino, OffsetToBno(offset))

\* UPDATE .. WHERE ino = ? AND bno = ?: no matching row is no error.
BlockUpdate(d, b, compression) ==
    IF <<b.ino, b.bno>> \in DOMAIN d.block
    THEN Ok([d EXCEPT !.block[<<b.ino, b.bno>>] = Compress(b, compression)], <<>>)
    ELSE Ok(d, <<>>)

BlockCreate(d, ino, offset, data, compression) ==
    Let(Consume(BlockEmpty(ino, OffsetToBno(offset)), data), LAMBDA r :
        IF r.panic THEN Fail("Panic", d)
        ELSE IF ~BlockConstraintsOk(d, ino, r.block.bno) THEN Fail("Other", d)
        ELSE Ok([d EXCEPT !.block = (<<ino, r.block.bno>> :> Compress(r.block, compression))
                                      @@ d.block],
                r.written))

RemoveBlocksFrom(d, ino, bno) ==
    Ok([d EXCEPT !.block =
           [k \in {x \in DOMAIN d.block : ~(x[1] = ino /\ x[2] >= bno)} |-> d.block[k]]],
       <<>>)

\* iter_blocks_from: the Blocks handed to the callback, in ascending order of
\* the rows' bnos.  The callback decides where the scan stops.
IterBlocksFrom(d, ino, offset) ==
    Let(BnosFrom(d, ino, OffsetToBno(offset)), LAMBDA bnos :
        [i \in 1..Len(bnos) |->
           [panic |-> DecompressPanics(d.block[<<ino, bnos[i]>>]),
            block |-> IterBlockAt(d, ino, offset, bnos[i])]])

(***************************************************************************)
(* types.rs, driver/attr.rs                                                *)
(***************************************************************************)
S_IFMT == 61440
S_IFSOCK == 49152
S_IFREG == 32768
S_IFBLK == 24576
S_IFCHR == 8192
S_IFIFO == 4096
U16 == 65536

RECURSIVE BitAnd(_, _)
BitAnd(a, b) ==
    IF a = 0 \/ b = 0 THEN 0
    ELSE (a % 2) * (b % 2) + 2 * BitAnd(a \div 2, b \div 2)

BitNot16(a) == U16 - 1 - (a % U16)

FromMode_Lenient(mode) ==
    LET fmt == BitAnd(mode, S_IFMT)
    IN CASE fmt = S_IFCHR -> "CharDevice"
         [] fmt = S_IFBLK -> "BlockDevice"
         [] fmt = S_IFIFO -> "NamedPipe"
         [] fmt = S_IFSOCK -> "Socket"
         [] OTHER -> "RegularFile"

\* FileType::from_mode: "None" for a mode whose type bits name no node kind.
FromMode(mode) ==
    LET fmt == BitAnd(mode, S_IFMT)
    IN CASE fmt = S_IFREG -> "RegularFile"
         [] fmt = S_IFCHR -> "CharDevice"
         [] fmt = S_IFBLK -> "BlockDevice"
         [] fmt = S_IFIFO -> "NamedPipe"
         [] fmt = S_IFSOCK -> "Socket"
         [] OTHER -> "None"

\* The times of a FileAttr (SystemTime::now()) are left out of the model.
NewDirectory ==
    [ino |-> 0, size |-> 0, blocks |-> 0, kind |-> "Directory", perm |-> 493,
     nlink |-> 2, uid |-> 0, gid |-> 0, rdev |-> 0, blksize |-> POSIX_BLOCK_SIZE,
     flags |-> 0]

NewNode(kind) ==
    [ino |-> 0, size |-> 0, blocks |-> 0, kind |-> kind, perm |-> 420,
     nlink |-> 1, uid |-> 0, gid |-> 0, rdev |-> 0, blksize |-> POSIX_BLOCK_SIZE,
     flags |-> 0]

WithModeUmask_NoUmask(attr, mode, umask) ==
    [attr EXCEPT !.perm = BitAnd(mode % U16, BitNot16(S_IFMT))]

\* with_mode_umask: perm = ((mode & !S_IFMT) & !umask) as u16
WithModeUmask(attr, mode, umask) ==
    [attr EXCEPT !.perm =
        BitAnd(BitAnd(mode % U16, BitNot16(S_IFMT)), BitNot16(umask))]

(***************************************************************************)
(* driver/handle.rs                                                        *)
(***************************************************************************)
HandleNew(ino, size) == [ino |-> ino, size |-> size, write_offset |-> 0, buf |-> <<>>]

BufferRemaining(h) == BUFFER_SIZE - Len(h.buf)
BufferEmpty(h) == h.buf = <<>>
BufferFull(h) == BufferRemaining(h) = 0
HandleWriteOffset(h) == h.write_offset + Len(h.buf)

\* seek_to asserts an empty buffer.
SeekToPanics(h) == Len(h.buf) # 0
SeekTo(h, offset) == [h EXCEPT !.write_offset = offset]

ConsumeInput(h, data) ==
    LET w == Min(Len(data), BufferRemaining(h))
    IN [h |-> [h EXCEPT !.buf = h.buf \o Take(data, w)], written |-> w]

\* The callback flush passes to iter_blocks_from, folded over the Blocks.
\* st = [data, new_offset, size, modified, panic]
RECURSIVE FlushOverwrite(_, _)
FlushOverwrite(blocks, st) ==
    IF blocks = <<>> THEN st
    ELSE IF Head(blocks).panic THEN [st EXCEPT !.panic = TRUE]
    ELSE Let(WriteAt(Head(blocks).block, st.new_offset, st.data), LAMBDA w :
         IF w.panic THEN [st EXCEPT !.panic = TRUE]
         ELSE Let([data |-> Drop(st.data, w.written),
                   new_offset |-> st.new_offset + w.written,
                   size |-> st.size + w.diff,
                   modified |-> IF w.written > 0
                                THEN Append(st.modified, w.block)
                                ELSE st.modified,
                   panic |-> FALSE],
                  LAMBDA st1 : IF st1.data = <<>> THEN st1
                               ELSE FlushOverwrite(Tail(blocks), st1)))

\* for block in modified_blocks { update(..)? }
RECURSIVE FlushUpdate(_, _, _)
FlushUpdate(d, modified, compression) ==
    IF modified = <<>> THEN Ok(d, <<>>)
    ELSE Let(BlockUpdate(d, Head(modified), compression), LAMBDA r :
             IF Failed(r) THEN r ELSE FlushUpdate(r.db, Tail(modified), compression))

\* while !data.is_empty() { create(..)?; attr.size += written }
\* st = [db, err, data, new_offset, size]
RECURSIVE FlushCreate(_, _, _, _)
FlushCreate(st, ino, compression, checks) ==
    IF st.data = <<>> THEN st
    ELSE Let(BlockCreate(st.db, ino, st.new_offset, st.data, compression), LAMBDA r :
         IF Failed(r) THEN [st EXCEPT !.err = r.err]
         \* attr.size += written on a size that wrapped below zero
         \* overflows u64 when it comes back to zero or above.
         ELSE IF checks /\ st.size < 0 /\ st.size + r.val >= 0
              THEN [st EXCEPT !.err = "Panic"]
         ELSE FlushCreate([db |-> r.db, err |-> "Ok",
                           data |-> Drop(st.data, r.val),
                           new_offset |-> st.new_offset + r.val,
                           size |-> st.size + r.val],
                          ino, compression, checks))

\* A flush that gives up its buffer when it returns an error.
HFail_Clears(err, d, h) ==
    [err |-> err, db |-> d,
     h |-> IF err \in {"Ok", "Panic"} THEN h ELSE [h EXCEPT !.buf = <<>>]]

HFail(err, d, h) == [err |-> err, db |-> d, h |-> h]

\* FileHandle::flush(tx) -> [err, db, h]: the database the transaction would
\* commit and the handle afterwards; on an error the handle is as it was.
HandleFlush(d, h, c) ==
    IF h.buf = <<>> THEN HFail("Ok", d, h)
    ELSE
    Let(InodeLookup(d, h.ino), LAMBDA a :
    IF Failed(a) THEN HFail(a.err, d, h)
    ELSE
    Let(FlushOverwrite(IterBlocksFrom(d, h.ino, h.write_offset),
                       [data |-> h.buf, new_offset |-> h.write_offset,
                        size |-> a.val.size, modified |-> <<>>, panic |-> FALSE]),
        LAMBDA it :
    IF it.panic THEN HFail("Panic", d, h)
    ELSE
    Let(FlushUpdate(d, it.modified, c.compression), LAMBDA u :
    IF Failed(u) THEN HFail(u.err, d, h)
    ELSE
    Let(FlushCreate([db |-> u.db, err |-> "Ok", data |-> it.data,
                     new_offset |-> it.new_offset, size |-> it.size],
                    h.ino, c.compression, c.overflow_checks),
        LAMBDA cr :
    IF cr.err # "Ok" THEN HFail(cr.err, d, h)
    ELSE
    Let(InodeSetAttr(cr.db, h.ino, "size", cr.size), LAMBDA s1 :
    IF Failed(s1) THEN HFail(s1.err, d, h)
    ELSE
    Let(InodeSetAttr(s1.db, h.ino, "blocks", CeilDiv(cr.size, a.val.blksize)),
        LAMBDA s2 :
    IF Failed(s2) THEN HFail(s2.err, d, h)
    ELSE HFail("Ok", s2.db, [h EXCEPT !.buf = <<>>,
                                      !.write_offset = cr.new_offset,
                                      !.size = cr.size])))))))

(***************************************************************************)
(* The slab of handles (slab::Slab): insert takes the vacant key freed     *)
(* last, or the next new key.                                              *)
(***************************************************************************)
EmptySlab == [len |-> 0, free |-> <<>>]
SlabNextKey(sl) == IF sl.free = <<>> THEN sl.len ELSE Head(sl.free)
SlabInsert(sl) ==
    IF sl.free = <<>> THEN [sl EXCEPT !.len = sl.len + 1]
    ELSE [sl EXCEPT !.free = Tail(sl.free)]
SlabRemove(sl, key) == [sl EXCEPT !.free = <<key>> \o sl.free]

(***************************************************************************)
(* driver/mod.rs: the handlers.  Each returns [err, db, val] with db the   *)
(* database after the handler's transactions; the handlers that touch a    *)
(* handle also return the handle table.                                    *)
(***************************************************************************)
DefaultCfg == [compression |-> "None", overflow_checks |-> TRUE]

EnsureRootExists(d) ==
    LET l == InodeLookup(d, 1)
        r == IF l.err = "NotFound" THEN InodeCreate(d, NewDirectory)
             ELSE IF Failed(l) THEN l ELSE Ok(d, <<>>)
    IN Res(r.err, WithWriteTx(d, r), <<>>)

LookupImpl(d, parent, name) ==
    LET e == DirEntryLookup(d, parent, name)
    IN IF Failed(e) THEN Fail(e.err, d) ELSE InodeLookup(d, e.val)

GetattrImpl(d, ino) == InodeLookup(d, ino)

MknodImpl(d, req, parent, name, mode, umask, rdev) ==
    LET kind == FromMode(mode)
    IN IF kind = "None" THEN Fail("InvalidArgument", d)
       ELSE LET attr == [WithModeUmask([NewNode(kind) EXCEPT !.uid = req.uid,
                                                              !.gid = req.gid],
                                       mode, umask)
                         EXCEPT !.rdev = rdev]
                c == InodeCreate(d, attr)
                e == DirEntryCreate(c.db, parent, name, c.val.ino)
                r == IF Failed(c) THEN c
                     ELSE IF Failed(e) THEN e ELSE Ok(e.db, c.val)
            IN Res(r.err, WithWriteTx(d, r), r.val)

MkdirImpl(d, req, parent, name, mode, umask) ==
    LET attr == [WithModeUmask(NewDirectory, mode, umask)
                 EXCEPT !.uid = req.uid, !.gid = req.gid]
        c == InodeCreate(d, attr)
        e == DirEntryCreate(c.db, parent, name, c.val.ino)
        r == IF Failed(c) THEN c
             ELSE IF Failed(e) THEN e ELSE Ok(e.db, c.val)
    IN Res(r.err, WithWriteTx(d, r), r.val)

LinkImpl_NoPersist(d, ino, newparent, newname) ==
    LET l == InodeLookup(d, ino)
        e == DirEntryCreate(d, newparent, newname, ino)
        r == IF Failed(l) THEN l
             ELSE IF Failed(e) THEN e
             ELSE Ok(e.db, [l.val EXCEPT !.nlink = l.val.nlink + 1])
    IN Res(r.err, WithWriteTx(d, r), r.val)

LinkImpl(d, ino, newparent, newname) ==
    LET l == InodeLookup(d, ino)
        nlink == l.val.nlink + 1
        e == DirEntryCreate(d, newparent, newname, ino)
        s == InodeSetAttr(e.db, ino, "nlink", nlink)
        r == IF Failed(l) THEN l
             ELSE IF Failed(e) THEN e
             ELSE IF Failed(s) THEN s
             ELSE Ok(s.db, [l.val EXCEPT !.nlink = nlink])
    IN Res(r.err, WithWriteTx(d, r), r.val)

UnlinkImpl_EntryOnly(d, parent, name) ==
    LET e == DirEntryLookup(d, parent, name)
        l == InodeLookup(d, e.val)
        s == InodeSetAttr(d, e.val, "nlink", l.val.nlink - 1)
        r == IF Failed(e) THEN e
             ELSE IF Failed(l) THEN l
             ELSE IF Failed(s) THEN s ELSE DirEntryRemove(s.db, parent, name)
    IN Res(r.err, WithWriteTx(d, r), <<>>)

UnlinkImpl_AllNames(d, parent, name) ==
    LET e == DirEntryLookup(d, parent, name)
        l == InodeLookup(d, e.val)
        nlink == l.val.nlink - 1
        s == InodeSetAttr(d, e.val, "nlink", nlink)
        r == IF Failed(e) THEN e
             ELSE IF Failed(l) THEN l
             ELSE IF nlink > 0
                  THEN IF Failed(s) THEN s
                       ELSE Ok([s.db EXCEPT !.dir_entry =
                                   SelectSeq(s.db.dir_entry, LAMBDA x: x.ino # e.val)],
                               <<>>)
                  ELSE InodeRemove(d, e.val)
    IN Res(r.err, WithWriteTx(d, r), <<>>)

\* Every stored nlink is at least 1 (rows are created with 1 or 2 and removed
\* on reaching 0), so attr.nlink -= 1 never underflows.
UnlinkImpl(d, parent, name) ==
    LET e == DirEntryLookup(d, parent, name)
        l == InodeLookup(d, e.val)
        nlink == l.val.nlink - 1
        s == InodeSetAttr(d, e.val, "nlink", nlink)
        r == IF Failed(e) THEN e
             ELSE IF Failed(l) THEN l
             ELSE IF nlink > 0
                  THEN IF Failed(s) THEN s ELSE DirEntryRemove(s.db, parent, name)
                  ELSE InodeRemove(d, e.val)
    IN Res(r.err, WithWriteTx(d, r), <<>>)

RmdirImpl_NoEmptyCheck(d, parent, name) ==
    LET e == DirEntryLookup(d, parent, name)
        r == IF Failed(e) THEN e ELSE InodeRemove(d, e.val)
    IN Res(r.err, WithWriteTx(d, r), <<>>)

RmdirImpl(d, parent, name) ==
    LET e == DirEntryLookup(d, parent, name)
        r == IF Failed(e) THEN e
             ELSE IF ~IsDirEmpty(d, e.val) THEN Fail("NotEmpty", d)
             ELSE InodeRemove(d, e.val)
    IN Res(r.err, WithWriteTx(d, r), <<>>)

RenameImpl(d, parent, name, newparent, newname) ==
    LET r == DirEntryRename(d, parent, name, newparent, newname)
    IN Res(r.err, WithWriteTx(d, r), <<>>)

\* setattr_impl; args is a record holding the fields that are Some.
SetattrImpl(d, ino, args, c) ==
    LET has(f) == f \in DOMAIN args
        s1 == IF has("mode") THEN InodeSetAttr(d, ino, "perm", args.mode) ELSE Ok(d, <<>>)
        s2 == IF has("uid") THEN InodeSetAttr(s1.db, ino, "uid", args.uid) ELSE s1
        s3 == IF has("gid") THEN InodeSetAttr(s2.db, ino, "gid", args.gid) ELSE s2
        bno == OffsetToBno(args.size)
        rm == RemoveBlocksFrom(s3.db, ino, bno + 1)
        g == GetBlock(rm.db, ino, bno)
        t == BlockTruncate(g.val, args.size, c.overflow_checks)
        u == IF g.err = "Ok"
             THEN IF t.panic THEN Fail("Panic", d)
                  ELSE BlockUpdate(rm.db, t.block, c.compression)
             ELSE IF g.err = "NotFound" THEN Ok(rm.db, <<>>)
             ELSE g
        s4 == IF Failed(u) THEN u ELSE InodeSetAttr(u.db, ino, "size", args.size)
        s5 == IF has("size") THEN s4 ELSE s3
        \* the atime, mtime, ctime and crtime branches write columns the
        \* model does not keep
        s6 == IF has("flags") THEN InodeSetAttr(s5.db, ino, "flags", args.flags) ELSE s5
        r == IF Failed(s1) THEN s1
             ELSE IF Failed(s2) THEN s2
             ELSE IF Failed(s3) THEN s3
             ELSE IF Failed(s5) THEN s5
             ELSE IF Failed(s6) THEN s6
             ELSE InodeLookup(s6.db, ino)
    IN Res(r.err, WithWriteTx(d, r), r.val)

HRes(err, d, hs, sl, val) == [err |-> err, db |-> d, handles |-> hs, slab |-> sl, val |-> val]

\* readdir_impl with an iter that returns false on the stop-th entry: Ok,
\* with the entries handed to iter as the value.
ReaddirImpl(d, ino, offset, stop) ==
    Let(ListDirIter(d, ino, offset, stop), LAMBDA r :
        Res(r.err, WithReadTx(d, r), r.val))

OpenImpl(d, hs, sl, ino) ==
    LET l == InodeLookup(d, ino)
        fh == SlabNextKey(sl)
    IN IF Failed(l) THEN HRes(l.err, d, hs, sl, <<>>)
       ELSE HRes("Ok", d, (fh :> HandleNew(ino, l.val.size)) @@ hs, SlabInsert(sl), fh)

ReleaseImpl(d, hs, sl, fh, c) ==
    IF fh \notin DOMAIN hs THEN HRes("NotFound", d, hs, sl, <<>>)
    ELSE Let(HandleFlush(d, hs[fh], c), LAMBDA f :
             HRes(f.err, WithWriteTx(d, f), Remove(hs, fh), SlabRemove(sl, fh), <<>>))

FlushImpl(d, hs, sl, fh, c) ==
    IF fh \notin DOMAIN hs THEN HRes("NotFound", d, hs, sl, <<>>)
    ELSE Let(HandleFlush(d, hs[fh], c), LAMBDA f :
             HRes(f.err, WithWriteTx(d, f), [hs EXCEPT ![fh] = f.h], sl, <<>>))

\* The callback read passes to iter_blocks_from, folded over the Blocks.
RECURSIVE ReadCopy(_, _, _, _)
ReadCopy(blocks, buf, cap, offset) ==
    IF blocks = <<>> THEN [panic |-> FALSE, dest |-> buf]
    ELSE IF Head(blocks).panic THEN [panic |-> TRUE, dest |-> buf]
    ELSE Let(CopyInto(Head(blocks).block, buf, cap, offset), LAMBDA r :
             IF r.panic THEN r
             ELSE IF Len(r.dest) < cap THEN ReadCopy(Tail(blocks), r.dest, cap, offset)
             ELSE r)

\* The read transaction of read_impl.
ReadTx(d, ino, offset, size, c) ==
    Let(InodeLookup(d, ino), LAMBDA l :
    IF Failed(l) THEN Fail(l.err, d)
    \* attr.size - offset underflows when offset is past the size: a panic
    \* with overflow checks, a wrap to a huge `remaining` without them.
    ELSE IF offset > l.val.size /\ c.overflow_checks THEN Fail("Panic", d)
    ELSE Let(ReadCopy(IterBlocksFrom(d, ino, offset), <<>>,
                      IF offset > l.val.size THEN size
                      ELSE Min(size, l.val.size - offset),
                      offset),
             LAMBDA r : IF r.panic THEN Fail("Panic", d) ELSE Ok(d, r.dest)))

ReadImpl(d, hs, sl, ino, fh, offset, size, c) ==
    IF fh \notin DOMAIN hs THEN HRes("NotFound", d, hs, sl, <<>>)
    ELSE Let(IF BufferEmpty(hs[fh]) THEN HFail("Ok", d, hs[fh])
             ELSE HandleFlush(d, hs[fh], c),
             LAMBDA f :
         IF Failed(f) THEN HRes(f.err, d, hs, sl, <<>>)
         ELSE Let(ReadTx(f.db, ino, offset, size, c), LAMBDA r :
                  HRes(r.err, f.db, [hs EXCEPT ![fh] = f.h], sl, r.val)))

\* The loop of write_impl -> [err, db, h]
RECURSIVE WriteLoop(_, _, _, _)
WriteLoop(d, h, data, c) ==
    IF data = <<>> THEN HFail("Ok", d, h)
    ELSE Let(IF BufferFull(h) THEN HandleFlush(d, h, c) ELSE HFail("Ok", d, h),
             LAMBDA f :
         IF Failed(f) THEN HFail(f.err, d, h)
         ELSE Let(ConsumeInput(f.h, data), LAMBDA k :
                  WriteLoop(f.db, k.h, Drop(data, k.written), c)))

\* A write_impl that moves the cursor without flushing first.
WriteImpl_SeekUnflushed(d, hs, sl, fh, offset, data, c) ==
    IF fh \notin DOMAIN hs THEN HRes("NotFound", d, hs, sl, <<>>)
    ELSE IF HandleWriteOffset(hs[fh]) # offset /\ SeekToPanics(hs[fh])
         THEN HRes("Panic", d, hs, sl, <<>>)
    ELSE Let(WriteLoop(d,
                       IF HandleWriteOffset(hs[fh]) # offset
                       THEN SeekTo(hs[fh], offset) ELSE hs[fh],
                       data, c),
             LAMBDA w : HRes(w.err, w.db, [hs EXCEPT ![fh] = w.h], sl,
                             IF Failed(w) THEN <<>> ELSE Len(data)))

WriteImpl(d, hs, sl, fh, offset, data, c) ==
    IF fh \notin DOMAIN hs THEN HRes("NotFound", d, hs, sl, <<>>)
    ELSE Let(IF HandleWriteOffset(hs[fh]) # offset
             THEN HandleFlush(d, hs[fh], c) ELSE HFail("Ok", d, hs[fh]),
             LAMBDA f :
         IF Failed(f) THEN HRes(f.err, d, hs, sl, <<>>)
         ELSE IF HandleWriteOffset(hs[fh]) # offset /\ SeekToPanics(f.h)
              THEN HRes("Panic", f.db, hs, sl, <<>>)
         ELSE Let(WriteLoop(f.db,
                            IF HandleWriteOffset(hs[fh]) # offset
                            THEN SeekTo(f.h, offset) ELSE f.h,
                            data, c),
                  LAMBDA w : HRes(w.err, w.db, [hs EXCEPT ![fh] = w.h], sl,
                                  IF Failed(w) THEN <<>> ELSE Len(data))))

(***************************************************************************)
(* Requests.  reply records the request served last and its result.        *)
(***************************************************************************)
Reply(op, args, r) == [op |-> op, args |-> args, err |-> r.err, val |-> r.val]
NoReply == [op |-> "none", args |-> <<>>, err |-> "Ok", val |-> <<>>]
NoHist == [phase |-> "none"]

\* No file grows past the model's bound.
SizeBounded(d) == \A i \in DOMAIN d.inode : d.inode[i].size <= MaxSize

\* A request served by a handler that touches only the database.
Serve(op, args, r) ==
    /\ alive
    /\ budget > 0
    /\ budget' = budget - 1
    /\ SizeBounded(r.db)
    /\ db' = r.db
    /\ alive' = (r.err # "Panic")
    /\ reply' = Reply(op, args, r)
    /\ UNCHANGED <<handles, slab, cfg>>

\* A request served by a handler that touches the handle table too.
ServeH(op, args, r) ==
    /\ alive
    /\ budget > 0
    /\ budget' = budget - 1
    /\ SizeBounded(r.db)
    /\ db' = r.db
    /\ handles' = r.handles
    /\ slab' = r.slab
    /\ alive' = (r.err # "Panic")
    /\ reply' = Reply(op, args, r)
    /\ UNCHANGED cfg

Req == [uid |-> 1000, gid |-> 1000]

InitReq ==
    /\ 1 \in DOMAIN db.inode \/ db.seq < MaxIno
    /\ Serve("init", <<>>, EnsureRootExists(db))

Lookup(parent, name) ==
    Serve("lookup", [parent |-> parent, name |-> name], LookupImpl(db, parent, name))

Getattr(ino) == Serve("getattr", [ino |-> ino], GetattrImpl(db, ino))

Setattr(ino, args) ==
    Serve("setattr", [ino |-> ino, set |-> args], SetattrImpl(db, ino, args, cfg))

Mknod(parent, name, mode, umask) ==
    /\ db.seq < MaxIno
    /\ Len(db.dir_entry) < MaxEntries
    /\ Serve("mknod", [parent |-> parent, name |-> name, mode |-> mode, umask |-> umask],
             MknodImpl(db, Req, parent, name, mode, umask, 0))

Mkdir(parent, name, mode, umask) ==
    /\ db.seq < MaxIno
    /\ Len(db.dir_entry) < MaxEntries
    /\ Serve("mkdir", [parent |-> parent, name |-> name, mode |-> mode, umask |-> umask],
             MkdirImpl(db, Req, parent, name, mode, umask))

Link(ino, newparent, newname) ==
    /\ Len(db.dir_entry) < MaxEntries
    /\ ino \in DOMAIN db.inode => db.inode[ino].nlink < MaxNlink
    /\ Serve("link", [ino |-> ino, newparent |-> newparent, newname |-> newname],
          LinkImpl(db, ino, newparent, newname))

Unlink(parent, name) ==
    Serve("unlink", [parent |-> parent, name |-> name], UnlinkImpl(db, parent, name))

Rmdir(parent, name) ==
    Serve("rmdir", [parent |-> parent, name |-> name], RmdirImpl(db, parent, name))

Rename(parent, name, newparent, newname) ==
    Serve("rename",
          [parent |-> parent, name |-> name, newparent |-> newparent, newname |-> newname],
          RenameImpl(db, parent, name, newparent, newname))

\* The callback hands add's answer to list_dir as iter's.  stop: the
\* kernel-supplied add answers true (buffer full, the entry is not stored) on
\* the entries before the stop-th and false (the entry is stored) on the
\* stop-th.
Readdir(ino, offset, stop) ==
    Serve("readdir", [ino |-> ino, offset |-> offset, stop |-> stop],
          ReaddirImpl(db, ino, offset, stop))

Open(ino) ==
    ServeH("open", [ino |-> ino], OpenImpl(db, handles, slab, ino))

Release(fh) ==
    ServeH("release", [fh |-> fh], ReleaseImpl(db, handles, slab, fh, cfg))

Flush(fh) ==
    ServeH("flush", [fh |-> fh], FlushImpl(db, handles, slab, fh, cfg))

Read(ino, fh, offset, size) ==
    ServeH("read", [ino |-> ino, fh |-> fh, offset |-> offset, size |-> size],
           ReadImpl(db, handles, slab, ino, fh, offset, size, cfg))

Write(fh, offset, data) ==
    ServeH("write", [fh |-> fh, offset |-> offset, data |-> data],
           WriteImpl(db, handles, slab, fh, offset, data, cfg))

\* A read callback that answers every error of read_impl with its errno.
ReadAnswer_Errno(r) ==
    IF r.err = "Panic" THEN [kind |-> "none"]
    ELSE IF r.err = "Ok" THEN [kind |-> "data", data |-> r.val]
    ELSE [kind |-> "error", errno |-> Errno(r.err)]

\* What the read callback hands to the kernel for the result r of read_impl:
\* Ok(data) => reply.data(&data), Err(Error::NotFound) => reply.data(&[]),
\* Err(e) => reply.error(e.errno()); a panic answers nothing.
ReadAnswer(r) ==
    IF r.err = "Panic" THEN [kind |-> "none"]
    ELSE IF r.err = "Ok" THEN [kind |-> "data", data |-> r.val]
    ELSE IF r.err = "NotFound" THEN [kind |-> "data", data |-> <<>>]
    ELSE [kind |-> "error", errno |-> Errno(r.err)]

(***************************************************************************)
(* The directory-tree specification: a fresh database and every request    *)
(* that works on inodes and directory entries.                             *)
(***************************************************************************)
RegMode == S_IFREG + 420
\* S_IFDIR | 0o755, a type from_mode does not know; the umask is 0o022.
DirMode == 16384 + 493
\* S_IFIFO | 0o666
FifoMode == S_IFIFO + 438
\* S_IFLNK | 0o777, another type from_mode does not know.
LnkMode == 40960 + 511
Umasks == {18}
FileUmask == CHOOSE u \in Umasks : TRUE

Init ==
    /\ db = EmptyDb
    /\ handles = <<>>
    /\ slab = EmptySlab
    /\ cfg = DefaultCfg
    /\ alive = TRUE
    /\ reply = NoReply
    /\ hist = NoHist
    /\ budget = MaxRequests

\* The arguments of the rename that undoes rename a.
Back(a) == [parent |-> a.newparent, name |-> a.newname,
            newparent |-> a.parent, newname |-> a.name]

\* The rename about to be served undoes the request before it, a rename of
\* an existing source to an unused destination.
Undoes(parent, name, newparent, newname) ==
    /\ hist.phase = "rename"
    /\ hist.src
    /\ ~hist.dst
    /\ reply.op = "rename"
    /\ reply.args = Back([parent |-> parent, name |-> name,
                          newparent |-> newparent, newname |-> newname])

\* What the rename about to be served finds: whether the source exists,
\* whether the destination is used, the database before it, and, when it
\* undoes the rename before it, the database before that one.
RenameNote(parent, name, newparent, newname) ==
    [phase |-> "rename",
     src |-> HasEntry(db, parent, name),
     dst |-> HasEntry(db, newparent, newname),
     before |-> db,
     undoes |-> Undoes(parent, name, newparent, newname),
     origin |-> IF Undoes(parent, name, newparent, newname) THEN hist.before ELSE db]

\* What the mknod about to be served finds: whether (parent, name) is unused,
\* and the database before it.
MknodNote(parent, name) ==
    [phase |-> "mknod", unused |-> ~HasEntry(db, parent, name), before |-> db]

\* The unlink about to be served names the (parent, name) of the request
\* before it, a mknod that found the name unused.
UnlinksNew(parent, name) ==
    /\ hist.phase = "mknod"
    /\ hist.unused
    /\ reply.op = "mknod"
    /\ reply.args.parent = parent
    /\ reply.args.name = name

\* For such an unlink: the database before the mknod and what the mknod
\* returned.
UnlinkNewNote(parent, name) ==
    IF UnlinksNew(parent, name)
    THEN [phase |-> "unlinked", before |-> hist.before, made |-> reply]
    ELSE NoHist

Next ==
    \/ InitReq /\ hist' = NoHist
    \/ \E p \in Inos, n \in Names : Lookup(p, n) /\ hist' = NoHist
    \/ \E p \in Inos, n \in Names, m \in {RegMode, FifoMode, DirMode, LnkMode}, u \in Umasks :
          Mknod(p, n, m, u) /\ hist' = MknodNote(p, n)
    \/ \E p \in Inos, n \in Names, u \in Umasks :
          Mkdir(p, n, 493, u) /\ hist' = NoHist
    \/ \E i \in Inos, p \in Inos, n \in Names : Link(i, p, n) /\ hist' = NoHist
    \/ \E p \in Inos, n \in Names : Unlink(p, n) /\ hist' = UnlinkNewNote(p, n)
    \/ \E p \in Inos, n \in Names : Rmdir(p, n) /\ hist' = NoHist
    \/ \E p \in Inos, n \in Names, q \in Inos, m \in Names :
          Rename(p, n, q, m) /\ hist' = RenameNote(p, n, q, m)

Spec == Init /\ [][Next]_vars

(***************************************************************************)
(* Claims on the directory tree.                                           *)
(***************************************************************************)
EntryRow(parent, name, ino) == [parent_ino |-> parent, name |-> name, ino |-> ino]

\* A dir_entry row without its rowid, and the table as such rows.
Columns(e) == [parent_ino |-> e.parent_ino, name |-> e.name, ino |-> e.ino]
Entries(d) == [i \in DOMAIN d.dir_entry |-> Columns(d.dir_entry[i])]

\* C5: P1 - every dir_entry row's ino is the ino of an existing inode and
\* its parent_ino is the ino of an existing inode whose kind is Directory,
\* after every request of any sequence of init, mknod, mkdir, link, unlink,
\* rmdir and rename requests.
C5_P1_EntriesReferToDirectories ==
    \A i \in DOMAIN db.dir_entry :
        /\ db.dir_entry[i].ino \in DOMAIN db.inode
        /\ db.dir_entry[i].parent_ino \in DOMAIN db.inode
        /\ db.inode[db.dir_entry[i].parent_ino].kind = "Directory"

\* What link promises: one new row (newparent, newname) -> ino, the inode's
\* stored nlink one higher and nothing else changed, and the returned
\* attributes are the inode's, with the incremented nlink.
LinkEffect(a) ==
    /\ reply'.err = "Ok"
    /\ Entries(db') = Append(Entries(db), EntryRow(a.newparent, a.newname, a.ino))
    /\ db'.inode = [db.inode EXCEPT ![a.ino].nlink = db.inode[a.ino].nlink + 1]
    /\ db'.block = db.block
    /\ reply'.val.ino = a.ino
    /\ reply'.val.nlink = db.inode[a.ino].nlink + 1
    /\ reply'.val = db'.inode[a.ino]

\* C9 as stated: link(ino, new_parent, new_name) on an existing inode with
\* (new_parent, new_name) unused creates exactly one dir_entry
\* (new_parent, new_name) -> ino, increases the stored nlink by exactly 1 and
\* returns attributes with the same ino and the incremented nlink.
C9_LinkAsStated ==
    [][(/\ reply'.op = "link"
        /\ reply'.args.ino \in DOMAIN db.inode
        /\ ~HasEntry(db, reply'.args.newparent, reply'.args.newname))
       => LinkEffect(reply'.args)]_vars

\* C9 amended: the same, for a new_parent that is itself an existing inode.
C9_LinkIntoExistingParent ==
    [][(/\ reply'.op = "link"
        /\ reply'.args.ino \in DOMAIN db.inode
        /\ reply'.args.newparent \in DOMAIN db.inode
        /\ ~HasEntry(db, reply'.args.newparent, reply'.args.newname))
       => LinkEffect(reply'.args)]_vars

\* A link of the regular file 2 under a second name of the root has succeeded.
C9_Witness ==
    /\ reply.op = "link"
    /\ reply.err = "Ok"
    /\ reply.args.ino = 2
    /\ reply.val.kind = "RegularFile"
    /\ reply.val.nlink = 2
    /\ Len(db.dir_entry) = 2
    /\ Columns(db.dir_entry[2]) = EntryRow(reply.args.newparent, reply.args.newname, 2)

\* The inode a request's (parent, name) names before the request is served.
Target(a) == DirEntryLookup(db, a.parent, a.name).val

\* Some dir_entry of d has ino as its parent_ino.
HasChild(d, ino) == \E i \in DOMAIN d.dir_entry : d.dir_entry[i].parent_ino = ino

\* C12: rmdir(parent, name) fails with NotEmpty and changes nothing whenever
\* some dir_entry has the target inode as parent_ino; when no such entry
\* exists it succeeds and removes both the target's inode and the
\* (parent, name) entry.
C12_RmdirOnlyOfEmpty ==
    [][(/\ reply'.op = "rmdir"
        /\ HasEntry(db, reply'.args.parent, reply'.args.name))
       => IF HasChild(db, Target(reply'.args))
          THEN /\ reply'.err = "NotEmpty"
               /\ db' = db
          ELSE /\ reply'.err = "Ok"
               /\ Target(reply'.args) \notin DOMAIN db'.inode
               /\ ~HasEntry(db', reply'.args.parent, reply'.args.name)]_vars

\* rmdir of a directory that holds an entry has been refused.
C12_Witness ==
    /\ reply.op = "rmdir"
    /\ reply.err = "NotEmpty"
    /\ HasEntry(db, reply.args.parent, reply.args.name)
    /\ db.inode[DirEntryLookup(db, reply.args.parent, reply.args.name).val].kind
          = "Directory"
    /\ HasChild(db, DirEntryLookup(db, reply.args.parent, reply.args.name).val)

\* rmdir of an empty directory has removed it (a state the claim's second
\* half is about).
C12_RemovedEmpty ==
    /\ reply.op = "rmdir"
    /\ reply.err = "Ok"
    /\ db.seq = 2
    /\ DOMAIN db.inode = {1}
    /\ db.dir_entry = <<>>

\* The rows of the dir_entry table, as a set.
Rows(d) == {Columns(d.dir_entry[i]) : i \in DOMAIN d.dir_entry}

\* What rename promises for a source that exists: the source name is gone,
\* the destination names the same inode, and no inode, block or other
\* dir_entry row has changed.
RenameEffect(a) ==
    /\ reply'.err = "Ok"
    /\ LookupImpl(db', a.parent, a.name).err = "NotFound"
    /\ LookupImpl(db', a.newparent, a.newname).err = "Ok"
    /\ LookupImpl(db', a.newparent, a.newname).val.ino = Target(a)
    /\ db'.inode = db.inode
    /\ db'.block = db.block
    /\ Len(db'.dir_entry) = Len(db.dir_entry)
    /\ Rows(db') \ {EntryRow(a.newparent, a.newname, Target(a))}
          = Rows(db) \ {EntryRow(a.parent, a.name, Target(a))}

\* C13 as stated: rename(parent, name, new_parent, new_name) with an existing
\* source and an unused destination preserves the inode: afterwards
\* lookup(parent, name) fails with NotFound, lookup(new_parent, new_name)
\* returns the same ino as before, and no inode, block or other dir_entry row
\* changes (cross-directory renames included).
C13_RenameAsStated ==
    [][(/\ reply'.op = "rename"
        /\ HasEntry(db, reply'.args.parent, reply'.args.name)
        /\ ~HasEntry(db, reply'.args.newparent, reply'.args.newname))
       => RenameEffect(reply'.args)]_vars

\* C13 amended: the same, for a new_parent that is itself an existing inode.
C13_RenameIntoExistingParent ==
    [][(/\ reply'.op = "rename"
        /\ HasEntry(db, reply'.args.parent, reply'.args.name)
        /\ reply'.args.newparent \in DOMAIN db.inode
        /\ ~HasEntry(db, reply'.args.newparent, reply'.args.newname))
       => RenameEffect(reply'.args)]_vars

\* An entry of the root has been renamed into another directory.
C13_Witness ==
    /\ reply.op = "rename"
    /\ reply.err = "Ok"
    /\ hist.phase = "rename"
    /\ hist.src
    /\ ~hist.dst
    /\ reply.args.parent = 1
    /\ reply.args.newparent # 1
    /\ db.inode[reply.args.newparent].kind = "Directory"
    /\ HasEntry(db, reply.args.newparent, reply.args.newname)
    /\ ~HasEntry(db, reply.args.parent, reply.args.name)

\* C14: rename onto a destination (new_parent, new_name) that already exists
\* fails with AlreadyExists, reported to the kernel as EEXIST, and leaves
\* both the source entry and the destination entry unchanged.
C14_RenameOntoExisting ==
    [][(/\ reply'.op = "rename"
        /\ HasEntry(db, reply'.args.parent, reply'.args.name)
        /\ HasEntry(db, reply'.args.newparent, reply'.args.newname)
        /\ <<reply'.args.parent, reply'.args.name>>
              # <<reply'.args.newparent, reply'.args.newname>>)
       => (/\ reply'.err = "AlreadyExists"
           /\ Errno(reply'.err) = "EEXIST"
           /\ db'.dir_entry = db.dir_entry)]_vars

\* C15: rename round trip - for an existing entry A and an unused name B,
\* rename(A -> B) followed by rename(B -> A) restores the directory tree
\* exactly: the set of (parent_ino, name, ino) rows and the order in which
\* readdir lists them are the same as before the two renames.
C15_RenameRoundTrip ==
    [][(/\ reply'.op = "rename"
        /\ Undoes(reply'.args.parent, reply'.args.name,
                  reply'.args.newparent, reply'.args.newname))
       => (/\ reply'.err = "Ok"
           /\ Rows(db') = Rows(hist.before)
           /\ \A p \in Inos : ListDir(db', p) = ListDir(hist.before, p))]_vars

\* The first of two entries of the root has been renamed away and back: it
\* is listed first again.
C15_Witness ==
    /\ hist.phase = "rename"
    /\ hist.undoes
    /\ reply.op = "rename"
    /\ reply.err = "Ok"
    /\ reply.args.newparent = 1
    /\ Rows(hist.before) # Rows(hist.origin)
    /\ Len(ListDir(hist.origin, 1)) = 2
    /\ ListDir(hist.origin, 1)[1].name = reply.args.newname
    /\ ListDir(db, 1) = ListDir(hist.origin, 1)

\* C16: mknod/unlink round trip - from any state in which (parent, name) is
\* unused, mknod(parent, name, ...) followed by unlink(parent, name) yields
\* inode, dir_entry and block tables equal to those before the mknod; only
\* the next-inode-number counter differs, so the removed inode number is
\* never handed out again.
C16_MknodUnlinkRoundTrip ==
    [][(/\ reply'.op = "unlink"
        /\ UnlinksNew(reply'.args.parent, reply'.args.name))
       => (/\ db'.inode = hist.before.inode
           /\ db'.dir_entry = hist.before.dir_entry
           /\ db'.block = hist.before.block
           /\ reply.err = "Ok"
                 => (/\ reply'.err = "Ok"
                     /\ db'.seq = hist.before.seq + 1
                     /\ InodeCreate(db', NewNode("RegularFile")).val.ino
                           > reply.val.ino))]_vars

\* A node made under an unused name of a directory that holds another entry
\* has been unlinked again.
C16_Witness ==
    /\ hist.phase = "unlinked"
    /\ hist.made.err = "Ok"
    /\ reply.op = "unlink"
    /\ reply.err = "Ok"
    /\ hist.before.dir_entry # <<>>
    /\ hist.made.val.ino \notin DOMAIN db.inode
    /\ db.seq = hist.made.val.ino
    /\ db.dir_entry = hist.before.dir_entry

\* C17: after mknod(parent, name, mode, umask, rdev) succeeds,
\* lookup(parent, name) returns the inode mknod returned, with
\* kind = from_mode(mode), perm = (mode & ~umask) & 0o7777, nlink = 1,
\* size = 0 and uid/gid equal to the requester's.
C17_MknodThenLookup ==
    [][(/\ reply'.op = "mknod"
        /\ reply'.err = "Ok")
       => (/\ LookupImpl(db', reply'.args.parent, reply'.args.name).err = "Ok"
           /\ LookupImpl(db', reply'.args.parent, reply'.args.name).val = reply'.val
           /\ reply'.val.kind = FromMode(reply'.args.mode)
           /\ reply'.val.perm = BitAnd(BitAnd(reply'.args.mode, 4095),
                                       4095 - BitAnd(reply'.args.umask, 4095))
           /\ reply'.val.nlink = 1
           /\ reply'.val.size = 0
           /\ reply'.val.uid = Req.uid
           /\ reply'.val.gid = Req.gid)]_vars

\* A FIFO has been made with mode 0o666 under umask 0o022: the umask has
\* taken bits away.
C17_Witness ==
    /\ reply.op = "mknod"
    /\ reply.err = "Ok"
    /\ reply.args.mode = FifoMode
    /\ reply.val.kind = "NamedPipe"
    /\ reply.val.perm = 420
    /\ LookupImpl(db, reply.args.parent, reply.args.name).val.ino = reply.val.ino

\* C18: mknod with a mode whose S_IFMT bits are not one of regular file,
\* character device, block device, FIFO or socket (for example directory or
\* symlink bits) fails with InvalidArgument and creates neither an inode nor
\* a dir_entry.
C18_MknodOfUnknownType ==
    [][(/\ reply'.op = "mknod"
        /\ BitAnd(reply'.args.mode, S_IFMT)
              \notin {S_IFREG, S_IFCHR, S_IFBLK, S_IFIFO, S_IFSOCK})
       => (/\ reply'.err = "InvalidArgument"
           /\ db' = db)]_vars

\* mknod of a symlink under an unused name of the root, which holds an
\* entry, has been refused.
C18_Witness ==
    /\ reply.op = "mknod"
    /\ reply.err = "InvalidArgument"
    /\ reply.args.mode = LnkMode
    /\ reply.args.parent = 1
    /\ ~HasEntry(db, 1, reply.args.name)
    /\ db.dir_entry # <<>>
    /\ db.seq = Cardinality(DOMAIN db.inode)

\* C19: root existence - init on a database without inode 1 creates it as a
\* Directory (perm 0o755, nlink 2, uid/gid 0, blksize 512); init on a
\* database that already has inode 1 changes nothing; and after a successful
\* init, inode 1 exists in every state reachable by any sequence of driver
\* requests (no unlink, rmdir or rename sequence removes it).
C19_RootExists ==
    [][/\ (reply'.op = "init" /\ 1 \notin DOMAIN db.inode)
          => (/\ reply'.err = "Ok"
              /\ 1 \in DOMAIN db'.inode
              /\ db'.inode[1].kind = "Directory"
              /\ db'.inode[1].perm = 493
              /\ db'.inode[1].nlink = 2
              /\ db'.inode[1].uid = 0
              /\ db'.inode[1].gid = 0
              /\ db'.inode[1].blksize = 512)
       /\ (reply'.op = "init" /\ 1 \in DOMAIN db.inode) => db' = db
       /\ 1 \in DOMAIN db.inode => 1 \in DOMAIN db'.inode]_vars

(***************************************************************************)
(* The file specification: a mounted volume holding one regular file, "a"  *)
(* in the root, under every compression and both builds; the requests are  *)
(* those on the file's content, its size and its names.                    *)
(***************************************************************************)
FileMknod == MknodImpl(EnsureRootExists(EmptyDb).db, Req, 1, "a", RegMode, FileUmask, 0)
FileIno == FileMknod.val.ino

Cfgs == [compression : Compressions, overflow_checks : BOOLEAN]
Fhs == 0..(MaxHandles - 1)
\* Offsets inside the first block, at its last byte, at the start of the
\* second block and one buffer into the file.
WriteOffsets == {0, 1, BLOCK_SIZE - 1, BLOCK_SIZE, BUFFER_SIZE}
WriteLens == {1, BLOCK_SIZE + 1, BUFFER_SIZE + 1}
WriteData == {Pattern(t, n) : t \in 0..(NumTags - 1), n \in WriteLens}
ReadOffsets == 0..MaxOffset
ReadSizes == {1, BLOCK_SIZE, MaxSize}
SetSizes == {0, 1, BLOCK_SIZE + 1}

InitFile ==
    /\ db = FileMknod.db
    /\ handles = <<>>
    /\ slab = EmptySlab
    /\ cfg \in Cfgs
    /\ alive = TRUE
    /\ reply = Reply("mknod", [parent |-> 1, name |-> "a", mode |-> RegMode, umask |-> FileUmask],
                     FileMknod)
    /\ hist = NoHist
    /\ budget = MaxFileRequests

\* What the write about to be served finds: the bytes buffered in the
\* handle and their cursor, the stored size of the file, whether the write
\* is a seek (its offset is not the handle's write offset) and whether it
\* fills the buffer.
WriteNote(fh, offset, data) ==
    IF fh \notin DOMAIN handles THEN NoHist
    ELSE [phase |-> "write",
          buffered |-> Len(handles[fh].buf),
          old |-> handles[fh].buf,
          cursor |-> handles[fh].write_offset,
          size |-> IF handles[fh].ino \in DOMAIN db.inode
                   THEN db.inode[handles[fh].ino].size ELSE 0,
          seek |-> HandleWriteOffset(handles[fh]) # offset,
          fill |-> Len(handles[fh].buf) + Len(data) >= BUFFER_SIZE]

\* What the flush about to be served finds in the handle: the number of
\* buffered bytes and the cursor.
FlushNote(fh) ==
    IF fh \notin DOMAIN handles THEN NoHist
    ELSE [phase |-> "flush",
          len |-> Len(handles[fh].buf),
          cursor |-> handles[fh].write_offset]

\* What the release about to be served finds: whether the handle is in the
\* table, and the bytes it holds and their cursor.
ReleaseNote(fh) ==
    IF fh \notin DOMAIN handles THEN NoHist
    ELSE [phase |-> "release",
          old |-> handles[fh].buf,
          cursor |-> handles[fh].write_offset]

\* What the unlink about to be served finds: the inode the entry names, its
\* stored nlink and the number of its block rows.
UnlinkNote(parent, name) ==
    LET e == DirEntryLookup(db, parent, name)
    IN IF Failed(e) \/ e.val \notin DOMAIN db.inode THEN NoHist
       ELSE [phase |-> "unlink", ino |-> e.val, nlink |-> db.inode[e.val].nlink,
             blocks |-> Cardinality(BlockRows(db, e.val))]

NextFile ==
    \/ slab.len - Len(slab.free) < MaxHandles /\ Open(FileIno) /\ hist' = NoHist
    \/ \E fh \in Fhs, o \in WriteOffsets, data \in WriteData :
          Write(fh, o, data) /\ hist' = WriteNote(fh, o, data)
    \/ \E fh \in Fhs, o \in ReadOffsets, n \in ReadSizes :
          Read(FileIno, fh, o, n) /\ hist' = NoHist
    \/ \E fh \in Fhs : Flush(fh) /\ hist' = FlushNote(fh)
    \/ \E fh \in Fhs : Release(fh) /\ hist' = ReleaseNote(fh)
    \/ Getattr(FileIno) /\ hist' = NoHist
    \/ \E n \in SetSizes : Setattr(FileIno, [size |-> n]) /\ hist' = NoHist
    \/ Link(FileIno, 1, "b") /\ hist' = NoHist
    \/ \E n \in Names : Unlink(1, n) /\ hist' = UnlinkNote(1, n)

SpecFile == InitFile /\ [][NextFile]_vars

(***************************************************************************)
(* Claims on the file's content.                                           *)
(***************************************************************************)
\* C4: request atomicity - a request that returns an error leaves the
\* inode, dir_entry and block tables exactly as they were before it; no
\* request leaves a partially applied effect, a write that needs more than
\* one buffer flush included.
C4_ErrorLeavesTablesUnchanged ==
    [][(reply'.err \notin {"Ok", "Panic"})
       => (/\ db'.inode = db.inode
           /\ db'.dir_entry = db.dir_entry
           /\ db'.block = db.block)]_vars

\* The inos that were given out and whose inode row is gone.
RemovedInos == (1..db.seq) \ DOMAIN db.inode

\* C6: P2/P4 - every block row's ino is the ino of an existing inode, and
\* for an inode that has been removed there is no dir_entry with that ino
\* or parent_ino and no block row with that ino, also after a handle opened
\* on it before the removal flushes buffered data or is released.
C6_P2P4_NoRowOfRemovedInode ==
    /\ \A k \in DOMAIN db.block : k[1] \in DOMAIN db.inode
    /\ \A x \in RemovedInos :
          /\ \A i \in DOMAIN db.dir_entry :
                db.dir_entry[i].ino # x /\ db.dir_entry[i].parent_ino # x
          /\ BlockRows(db, x) = {}

\* The file was removed while a handle on it held buffered bytes behind a
\* flush that had already stored blocks; the handle's flush or release has
\* now been served.
C6_Witness ==
    /\ FileIno \in RemovedInos
    /\ reply.op = "flush"
    /\ reply.err = "NotFound"
    /\ reply.args.fh \in DOMAIN handles
    /\ handles[reply.args.fh].buf # <<>>
    /\ handles[reply.args.fh].write_offset > 0

RECURSIVE SumLens(_, _, _)
SumLens(d, ino, bnos) ==
    IF bnos = <<>> THEN 0
    ELSE Len(Decompress(d.block[<<ino, Head(bnos)>>], ino, Head(bnos)).data)
         + SumLens(d, ino, Tail(bnos))

\* The sum of the decompressed lengths of ino's block rows.
StoredLen(d, ino) == SumLens(d, ino, BnosFrom(d, ino, 0))

\* C7: P3 - for every regular-file inode the sum of the decompressed
\* lengths of its block rows is at least inode.size - BLOCK_SIZE and at most
\* inode.size + BLOCK_SIZE, over any sequence of writes, flushes and
\* setattr(size) requests.
C7_P3_StoredLengthWithinABlockOfSize ==
    \A i \in DOMAIN db.inode :
        db.inode[i].kind = "RegularFile" =>
            /\ StoredLen(db, i) >= db.inode[i].size - BLOCK_SIZE
            /\ StoredLen(db, i) <= db.inode[i].size + BLOCK_SIZE

\* C8: P5 - after every successful flush of an open handle, whatever
\* offsets its preceding writes used, the handle's cursor + len(buffer) is
\* at most inode.size.
C8_P5_FlushedEndWithinSize ==
    (/\ reply.op = "flush"
     /\ reply.err = "Ok"
     /\ reply.args.fh \in DOMAIN handles
     /\ handles[reply.args.fh].ino \in DOMAIN db.inode)
    => HandleWriteOffset(handles[reply.args.fh])
          <= db.inode[handles[reply.args.fh].ino].size

\* The last request was a successful write that neither sought nor filled
\* the buffer.
BufferedWrite ==
    /\ hist.phase = "write"
    /\ ~hist.seek
    /\ ~hist.fill
    /\ reply.op = "write"
    /\ reply.err = "Ok"

\* C3: visibility of buffered writes - a write through handle A that neither
\* seeks nor fills the buffer leaves the database as it was (so getattr and
\* a read through another handle B observe the state before the write), and
\* a read through A that follows it, at the write's offset and of at least
\* its length, returns the written bytes first.
C3_BufferedWriteVisibleThroughItsHandleOnly ==
    [][/\ (/\ reply'.op = "write"
           /\ reply'.err = "Ok"
           /\ hist'.phase = "write"
           /\ ~hist'.seek
           /\ ~hist'.fill)
          => (/\ db' = db
              /\ handles'[reply'.args.fh].buf
                    = handles[reply'.args.fh].buf \o reply'.args.data)
       /\ (/\ BufferedWrite
           /\ reply'.op = "read"
           /\ reply'.args.fh = reply.args.fh
           /\ reply'.args.offset = reply.args.offset
           /\ reply'.args.size >= Len(reply.args.data))
          => (/\ reply'.err = "Ok"
              /\ Len(reply'.val) >= Len(reply.args.data)
              /\ Take(reply'.val, Len(reply.args.data)) = reply.args.data)]_vars

\* C10: unlink(parent, name) of an entry whose inode has nlink > 1 decrements
\* the stored nlink by exactly 1 and removes only the row (parent, name); the
\* inode row otherwise, all its block rows and all other dir_entry rows are
\* unchanged.
C10_UnlinkOfOneNameOfSeveral ==
    [][(/\ reply'.op = "unlink"
        /\ HasEntry(db, reply'.args.parent, reply'.args.name)
        /\ DirEntryLookup(db, reply'.args.parent, reply'.args.name).val \in DOMAIN db.inode
        /\ db.inode[DirEntryLookup(db, reply'.args.parent, reply'.args.name).val].nlink > 1)
       => (/\ reply'.err = "Ok"
           /\ db'.inode =
                 [db.inode EXCEPT
                    ![DirEntryLookup(db, reply'.args.parent, reply'.args.name).val].nlink
                       = @ - 1]
           /\ db'.dir_entry =
                 SelectSeq(db.dir_entry,
                           LAMBDA e : ~(e.parent_ino = reply'.args.parent
                                        /\ e.name = reply'.args.name))
           /\ Len(db'.dir_entry) = Len(db.dir_entry) - 1
           /\ db'.block = db.block)]_vars

\* One of the two names of the file, which has stored blocks, has been
\* unlinked: the file is still there under the other name, with its blocks.
C10_Witness ==
    /\ reply.op = "unlink"
    /\ reply.err = "Ok"
    /\ FileIno \in DOMAIN db.inode
    /\ db.inode[FileIno].nlink = 1
    /\ BlockRows(db, FileIno) # {}
    /\ Len(db.dir_entry) = 1
    /\ db.dir_entry[1].ino = FileIno
    /\ db.dir_entry[1].name # reply.args.name

\* C11: unlink(parent, name) of an entry whose inode has nlink = 1 removes the
\* inode row, the named dir_entry and every block row of that inode:
\* afterwards the inode lookup fails with NotFound and the inode has no block.
C11_UnlinkOfLastName ==
    [][(/\ reply'.op = "unlink"
        /\ HasEntry(db, reply'.args.parent, reply'.args.name)
        /\ DirEntryLookup(db, reply'.args.parent, reply'.args.name).val \in DOMAIN db.inode
        /\ db.inode[DirEntryLookup(db, reply'.args.parent, reply'.args.name).val].nlink = 1)
       => (/\ reply'.err = "Ok"
           /\ DirEntryLookup(db, reply'.args.parent, reply'.args.name).val
                 \notin DOMAIN db'.inode
           /\ InodeLookup(db', DirEntryLookup(db, reply'.args.parent,
                                              reply'.args.name).val).err = "NotFound"
           /\ ~HasEntry(db', reply'.args.parent, reply'.args.name)
           /\ BlockRows(db', DirEntryLookup(db, reply'.args.parent,
                                            reply'.args.name).val) = {})]_vars

\* The only name of the file has been unlinked while the file had stored
\* blocks: its inode row and its blocks are gone.
C11_Witness ==
    /\ reply.op = "unlink"
    /\ reply.err = "Ok"
    /\ hist.phase = "unlink"
    /\ hist.nlink = 1
    /\ hist.blocks > 0
    /\ hist.ino \notin DOMAIN db.inode
    /\ BlockRows(db, hist.ino) = {}

\* The size of ino covers a block number that has no block row.
HasHole(d, ino) ==
    \E b \in 0..(CeilDiv(d.inode[ino].size, BLOCK_SIZE) - 1) :
        <<ino, b>> \notin DOMAIN d.block

\* Position p of ino lies in a block that has no row.
InMissingBlock(d, ino, p) == <<ino, OffsetToBno(p)>> \notin DOMAIN d.block

\* Position p of ino lies inside the data of an existing block row.
InStoredData(d, ino, p) ==
    /\ <<ino, OffsetToBno(p)>> \in DOMAIN d.block
    /\ p % BLOCK_SIZE < Len(d.block[<<ino, OffsetToBno(p)>>].frame.raw)

\* The byte stored for position p of ino.
StoredByte(d, ino, p) == d.block[<<ino, OffsetToBno(p)>>].frame.raw[(p % BLOCK_SIZE) + 1]

\* C20: holes read as zeros - for a file whose size covers block numbers that
\* have no block row, a read of a range inside [0, inode.size) returns zero
\* bytes at every position of a missing block and returns the data of
\* existing blocks at their own file offsets.
C20_HolesReadAsZeros ==
    [][(/\ reply'.op = "read"
        /\ reply'.args.fh \in DOMAIN handles
        /\ FileIno \in DOMAIN db'.inode
        /\ HasHole(db', FileIno)
        /\ reply'.args.offset + reply'.args.size <= db'.inode[FileIno].size)
       => (/\ reply'.err = "Ok"
           /\ \A p \in reply'.args.offset..(reply'.args.offset + reply'.args.size - 1) :
                 /\ Len(reply'.val) > p - reply'.args.offset
                 /\ InMissingBlock(db', FileIno, p)
                       => reply'.val[p - reply'.args.offset + 1] = 0
                 /\ InStoredData(db', FileIno, p)
                       => reply'.val[p - reply'.args.offset + 1]
                             = StoredByte(db', FileIno, p))]_vars

\* C21: overwrite preserves the rest of the file - a flush of L buffered
\* bytes at cursor o with o + L <= inode.size leaves every stored byte of the
\* file outside [o, o+L) in its place with its previous value.
C21_OverwritePreservesRest ==
    [][\A fh \in Fhs :
        (/\ reply'.op = "flush"
         /\ reply'.args.fh = fh
         /\ fh \in DOMAIN handles
         /\ handles[fh].buf # <<>>
         /\ FileIno \in DOMAIN db.inode
         /\ handles[fh].write_offset + Len(handles[fh].buf) <= db.inode[FileIno].size)
        => \A p \in 0..(db.inode[FileIno].size - 1) :
              (/\ InStoredData(db, FileIno, p)
               /\ (p < handles[fh].write_offset
                    \/ p >= handles[fh].write_offset + Len(handles[fh].buf)))
              => (/\ InStoredData(db', FileIno, p)
                  /\ StoredByte(db', FileIno, p) = StoredByte(db, FileIno, p))]_vars

\* C22: a read through an open handle with nothing buffered, at an offset
\* greater than the file's size, returns an empty byte string (no error, no
\* panic, no bytes); at an offset <= size it returns at most
\* min(size, inode.size - offset) bytes.
C22_ReadWithinBounds ==
    [][(/\ reply'.op = "read"
        /\ reply'.args.fh \in DOMAIN handles
        /\ handles[reply'.args.fh].buf = <<>>
        /\ FileIno \in DOMAIN db.inode)
       => IF reply'.args.offset > db.inode[FileIno].size
          THEN reply'.err = "Ok" /\ reply'.val = <<>>
          ELSE reply'.err = "Ok"
                  => Len(reply'.val) <= Min(reply'.args.size,
                                            db.inode[FileIno].size - reply'.args.offset)]_vars

\* C23: unlink of an open file - once unlink has removed the inode of an
\* open handle (nlink dropped to 0), every read through that handle is
\* answered to the kernel with zero bytes and not with an error, with or
\* without buffered writes in the handle.
C23_ReadAfterUnlink ==
    [][(/\ reply'.op = "read"
        /\ reply'.args.fh \in DOMAIN handles
        /\ handles[reply'.args.fh].ino \notin DOMAIN db.inode)
       => (/\ ReadAnswer(reply') = [kind |-> "data", data |-> <<>>]
           /\ reply'.args.fh \in DOMAIN handles'
           /\ alive')]_vars

\* The file was unlinked under a handle that holds buffered writes, and a
\* read through the handle has been answered with zero bytes.
C23_Witness ==
    /\ reply.op = "read"
    /\ reply.args.fh \in DOMAIN handles
    /\ handles[reply.args.fh].buf # <<>>
    /\ FileIno \notin DOMAIN db.inode
    /\ reply.err = "NotFound"
    /\ ReadAnswer(reply) = [kind |-> "data", data |-> <<>>]

\* Position p of ino holds byte b in its block row.
Stores(d, ino, p, b) == InStoredData(d, ino, p) /\ StoredByte(d, ino, p) = b

\* The bytes of buf are stored in the rows of ino in their order, from
\* position cursor - shift on, for some shift below BLOCK_SIZE.
StoredInOrder(d, ino, cursor, buf) ==
    \E shift \in 0..Min(cursor, BLOCK_SIZE - 1) :
        \A i \in DOMAIN buf : Stores(d, ino, cursor - shift + i - 1, buf[i])

\* The last n elements of s.
Suffix(s, n) == Drop(s, Len(s) - n)

\* C24: write on an open handle terminates and loses nothing - a handle that
\* is not full absorbs at least one byte of a non-empty input and a
\* successful flush leaves the buffer not full (so every iteration of the
\* loop shortens the input); when no flush fails, write returns len(data),
\* the handle's write offset ends at offset + len(data), and the buffer holds
\* the last bytes of the stream of bytes handed to the handle, the bytes
\* before them being in the block rows of the inode.
C24_WriteAbsorbsAll ==
    [][\A fh \in Fhs :
        (/\ reply'.op = "write"
         /\ reply'.args.fh = fh
         /\ fh \in DOMAIN handles)
        => (/\ \A h \in {handles[fh]} \cup
                         (IF fh \in DOMAIN handles' THEN {handles'[fh]} ELSE {}) :
                  /\ ~BufferFull(h)
                        => ConsumeInput(h, reply'.args.data).written >= 1
                  /\ (BufferFull(h) /\ ~Failed(HandleFlush(db', h, cfg)))
                        => ~BufferFull(HandleFlush(db', h, cfg).h)
            /\ reply'.err = "Ok"
                  => (/\ reply'.val = Len(reply'.args.data)
                      /\ fh \in DOMAIN handles'
                      /\ HandleWriteOffset(handles'[fh])
                            = reply'.args.offset + Len(reply'.args.data)
                      /\ Len(handles'[fh].buf) <= BUFFER_SIZE
                      /\ Let(IF HandleWriteOffset(handles[fh]) # reply'.args.offset
                             THEN reply'.args.data
                             ELSE handles[fh].buf \o reply'.args.data,
                             LAMBDA stream :
                             /\ handles'[fh].buf = Suffix(stream, Len(handles'[fh].buf))
                             /\ Len(stream) > Len(handles'[fh].buf)
                                   => StoredInOrder(
                                         db', handles[fh].ino,
                                         IF HandleWriteOffset(handles[fh])
                                               # reply'.args.offset
                                         THEN reply'.args.offset
                                         ELSE handles[fh].write_offset,
                                         Take(stream,
                                              Len(stream) - Len(handles'[fh].buf))))))]_vars

\* The block rows of ino are contiguous from block 0: their block numbers
\* are 0..n-1 and every row but the last holds BLOCK_SIZE bytes.
Contiguous(d, ino) ==
    LET n == Cardinality(BlockRows(d, ino))
    IN /\ \A k \in BlockRows(d, ino) : k[2] < n
       /\ \A k \in BlockRows(d, ino) :
             k[2] < n - 1 => Len(Decompress(d.block[k], ino, k[2]).data) = BLOCK_SIZE

\* C26: flush block accounting - a flush of L buffered bytes at cursor c
\* into a file whose block rows are contiguous from block 0 and hold S bytes
\* in total, with c <= S, succeeds and leaves block rows that hold
\* max(S, c+L) bytes in total in exactly ceil(max(S, c+L) / BLOCK_SIZE) rows.
C26_FlushBlockAccounting ==
    [][\A fh \in Fhs :
        (/\ reply'.op = "flush"
         /\ reply'.args.fh = fh
         /\ fh \in DOMAIN handles
         /\ handles[fh].buf # <<>>
         /\ FileIno \in DOMAIN db.inode
         /\ Contiguous(db, FileIno)
         /\ handles[fh].write_offset <= StoredLen(db, FileIno))
        => Let(Max(StoredLen(db, FileIno),
                   handles[fh].write_offset + Len(handles[fh].buf)),
               LAMBDA total :
               /\ reply'.err = "Ok"
               /\ StoredLen(db', FileIno) = total
               /\ Cardinality(BlockRows(db', FileIno))
                     = CeilDiv(total, BLOCK_SIZE))]_vars

\* C27: flush postconditions - after a successful flush of a handle that
\* held L > 0 buffered bytes at cursor c the buffer is empty, the cursor is
\* c + L, the handle's cached size equals the stored inode.size and the
\* stored inode.blocks is ceil(inode.size / blksize); a flush of an empty
\* buffer changes neither the handle nor the database.
C27_FlushPostconditions ==
    [][\A fh \in Fhs :
        (/\ reply'.op = "flush"
         /\ reply'.args.fh = fh
         /\ fh \in DOMAIN handles)
        => IF handles[fh].buf = <<>>
           THEN /\ reply'.err = "Ok"
                /\ handles' = handles
                /\ db' = db
           ELSE reply'.err = "Ok"
                   => Let(db'.inode[handles[fh].ino], LAMBDA attr :
                          /\ handles'[fh].buf = <<>>
                          /\ handles'[fh].write_offset
                                = handles[fh].write_offset + Len(handles[fh].buf)
                          /\ handles'[fh].size = attr.size
                          /\ attr.blocks * attr.blksize >= attr.size
                          /\ (attr.blocks - 1) * attr.blksize < attr.size)]_vars

\* A flush of buffered bytes has succeeded and left a file that is not empty.
C27_Witness ==
    /\ reply.op = "flush"
    /\ reply.err = "Ok"
    /\ hist.phase = "flush"
    /\ hist.len > 0
    /\ reply.args.fh \in DOMAIN handles
    /\ handles[reply.args.fh].buf = <<>>
    /\ handles[reply.args.fh].write_offset = hist.cursor + hist.len
    /\ handles[reply.args.fh].size > 0
    /\ db.inode[FileIno].blocks = 1

\* C28: seek_to is reached with an empty buffer only - in a write whose
\* offset is not the handle's write offset, the flush before seek_to either
\* fails, and then write returns that error with the cursor where it was,
\* or leaves the buffer empty, so that the assertion of seek_to holds and a
\* write that fits the buffer succeeds with the cursor at its offset.
C28_SeekToFindsEmptyBuffer ==
    [][\A fh \in Fhs :
        (/\ reply'.op = "write"
         /\ reply'.args.fh = fh
         /\ fh \in DOMAIN handles
         /\ HandleWriteOffset(handles[fh]) # reply'.args.offset)
        => Let(HandleFlush(db, handles[fh], cfg), LAMBDA f :
               IF Failed(f)
               THEN /\ reply'.err = f.err
                    /\ handles' = handles
                    /\ db' = db
               ELSE /\ ~SeekToPanics(f.h)
                    /\ Len(reply'.args.data) <= BUFFER_SIZE
                          => (/\ reply'.err = "Ok"
                              /\ handles'[fh].write_offset = reply'.args.offset
                              /\ handles'[fh].buf = reply'.args.data))]_vars

\* A write has sought away from a handle that held buffered bytes, and
\* has succeeded.
C28_Witness ==
    /\ reply.op = "write"
    /\ reply.err = "Ok"
    /\ hist.phase = "write"
    /\ hist.seek
    /\ hist.buffered > 0
    /\ reply.args.fh \in DOMAIN handles
    /\ handles[reply.args.fh].write_offset = reply.args.offset
    /\ handles[reply.args.fh].buf = reply.args.data

\* C29: seek detection keeps every chunk at its own offset - when a write
\* at an offset inside or at the end of the file seeks away from bytes an
\* earlier write left in the buffer (at a cursor inside or at the end of the
\* file) and a flush follows, the flush succeeds, the bytes of the later
\* write are stored at the offset of its call, and the bytes of the earlier
\* write that the later one does not overlap are stored at theirs.
C29_SeekKeepsChunksInPlace ==
    [][\A fh \in Fhs :
        (/\ reply.op = "write"
         /\ reply.err = "Ok"
         /\ reply.args.fh = fh
         /\ hist.phase = "write"
         /\ hist.seek
         /\ hist.buffered > 0
         /\ hist.cursor <= hist.size
         /\ FileIno \in DOMAIN db.inode
         /\ reply.args.offset <= db.inode[FileIno].size
         /\ fh \in DOMAIN handles
         /\ handles[fh].buf = reply.args.data
         /\ reply'.op = "flush"
         /\ reply'.args.fh = fh)
        => (/\ reply'.err = "Ok"
            /\ \A i \in DOMAIN reply.args.data :
                  Stores(db', FileIno, reply.args.offset + i - 1, reply.args.data[i])
            /\ \A i \in DOMAIN hist.old :
                  (hist.cursor + i - 1 < reply.args.offset
                   \/ hist.cursor + i - 1 >= reply.args.offset + Len(reply.args.data))
                  => Stores(db', FileIno, hist.cursor + i - 1, hist.old[i]))]_vars

\* What a read of the whole file from offset 0 returns.
ReadAll(d, ino, c) == ReadTx(d, ino, 0, MaxSize, c)

\* C30: truncate - after setattr(ino, size = N) with N at most the old size
\* of a file that reads back in full, getattr(ino).size is N, no block row
\* has a bno above offset_to_bno(N), the block at offset_to_bno(N), if
\* present, holds at most N mod BLOCK_SIZE bytes, and a read of the file
\* from 0 returns exactly the first N bytes of what it returned before.
C30_Truncate ==
    [][(/\ reply'.op = "setattr"
        /\ reply'.args.ino = FileIno
        /\ reply'.err = "Ok"
        /\ FileIno \in DOMAIN db.inode
        /\ reply'.args.set.size <= db.inode[FileIno].size
        /\ ReadAll(db, FileIno, cfg).err = "Ok"
        /\ Len(ReadAll(db, FileIno, cfg).val) = db.inode[FileIno].size)
       => Let(reply'.args.set.size, LAMBDA N :
              /\ GetattrImpl(db', FileIno).err = "Ok"
              /\ GetattrImpl(db', FileIno).val.size = N
              /\ \A k \in BlockRows(db', FileIno) : k[2] <= OffsetToBno(N)
              /\ <<FileIno, OffsetToBno(N)>> \in DOMAIN db'.block
                    => Len(Decompress(db'.block[<<FileIno, OffsetToBno(N)>>],
                                      FileIno, OffsetToBno(N)).data)
                          <= N % BLOCK_SIZE
              /\ ReadAll(db', FileIno, cfg).err = "Ok"
              /\ ReadAll(db', FileIno, cfg).val
                    = Take(ReadAll(db, FileIno, cfg).val, N))]_vars

\* C31: release is terminal - a release that returns, whether its flush
\* succeeded or failed, has taken the handle out of the table; a write, read,
\* flush or release that names an fh not in the table fails with NotFound
\* and changes nothing; an fh comes into the table through open only; and
\* when the flush of release succeeds the bytes the handle had buffered are
\* in the block rows of its inode.
C31_ReleaseIsTerminal ==
    [][/\ (/\ reply'.op = "release"
            /\ reply'.args.fh \in DOMAIN handles
            /\ reply'.err # "Panic")
           => (/\ reply'.args.fh \notin DOMAIN handles'
               /\ (reply'.err = "Ok" /\ handles[reply'.args.fh].buf # <<>>)
                     => StoredInOrder(db', handles[reply'.args.fh].ino,
                                      handles[reply'.args.fh].write_offset,
                                      handles[reply'.args.fh].buf))
       /\ (/\ reply'.op \in {"write", "read", "flush", "release"}
            /\ reply'.args.fh \notin DOMAIN handles)
           => (/\ reply'.err = "NotFound"
               /\ handles' = handles
               /\ db' = db)
       /\ DOMAIN handles' \ DOMAIN handles # {} => reply'.op = "open"]_vars

\* What the callback of flush would make of the rows of handle h's inode.
Overwritten(d, h) ==
    FlushOverwrite(IterBlocksFrom(d, h.ino, h.write_offset),
                   [data |-> h.buf, new_offset |-> h.write_offset,
                    size |-> 0, modified |-> <<>>, panic |-> FALSE])

\* No call of available() in a flush of h underflows, and every Block that
\* write_at produces in it holds at most BLOCK_SIZE bytes.
FlushWithinBlockSize(d, h) ==
    /\ \A i \in DOMAIN IterBlocksFrom(d, h.ino, h.write_offset) :
          ~IterBlocksFrom(d, h.ino, h.write_offset)[i].panic
    /\ ~Overwritten(d, h).panic
    /\ \A i \in DOMAIN Overwritten(d, h).modified :
          Len(Overwritten(d, h).modified[i].data) <= BLOCK_SIZE

\* C32: block size bound - in every reachable state every stored block row
\* holds, decompressed, at most BLOCK_SIZE bytes, and so does every Block
\* that write_at produces in a flush of an open handle, no call of
\* available() underflowing.
C32_BlocksWithinBlockSize ==
    /\ \A k \in DOMAIN db.block :
          Len(Decompress(db.block[k], k[1], k[2]).data) <= BLOCK_SIZE
    /\ \A fh \in DOMAIN handles :
          (handles[fh].buf # <<>> /\ handles[fh].ino \in DOMAIN db.inode)
             => FlushWithinBlockSize(db, handles[fh])

\* C33: full non-trailing blocks - after a successful flush of L > 0 bytes
\* at cursor c, every block of the inode from the one holding offset c up to,
\* but not including, the one holding offset c + L - 1 has a row, and that
\* row holds exactly BLOCK_SIZE bytes.
C33_FullNonTrailingBlocks ==
    [][\A fh \in Fhs :
        (/\ reply'.op = "flush"
         /\ reply'.args.fh = fh
         /\ reply'.err = "Ok"
         /\ fh \in DOMAIN handles
         /\ handles[fh].buf # <<>>)
        => \A b \in OffsetToBno(handles[fh].write_offset)
                     ..(OffsetToBno(handles[fh].write_offset
                                    + Len(handles[fh].buf) - 1) - 1) :
              /\ <<handles[fh].ino, b>> \in DOMAIN db'.block
              /\ Len(db'.block[<<handles[fh].ino, b>>].frame.raw) = BLOCK_SIZE]_vars

\* C34: flush never shrinks a file - the size deltas that the write_at
\* calls of a flush return do not sum to less than 0 (as they cannot when
\* each is at least 0), and the inode.size a successful flush stores is not
\* smaller than the inode.size it read at its start.
C34_FlushNeverShrinks ==
    [][\A fh \in Fhs :
        (/\ reply'.op = "flush"
         /\ reply'.args.fh = fh
         /\ fh \in DOMAIN handles
         /\ handles[fh].buf # <<>>
         /\ handles[fh].ino \in DOMAIN db.inode)
        => (/\ ~Overwritten(db, handles[fh]).panic
                  => Overwritten(db, handles[fh]).size >= 0
            /\ reply'.err = "Ok"
                  => db'.inode[handles[fh].ino].size
                        >= db.inode[handles[fh].ino].size)]_vars

\* C35: unaligned write into a fresh block - when a successful flush at a
\* cursor o that is no multiple of BLOCK_SIZE creates the row of the block
\* holding o, the first o mod BLOCK_SIZE bytes of that row are zero and the
\* flushed bytes follow from position o mod BLOCK_SIZE on.
C35_UnalignedFreshBlock ==
    [][\A fh \in Fhs :
        (/\ reply'.op = "flush"
         /\ reply'.args.fh = fh
         /\ reply'.err = "Ok"
         /\ fh \in DOMAIN handles
         /\ handles[fh].buf # <<>>
         /\ handles[fh].write_offset % BLOCK_SIZE # 0
         /\ <<handles[fh].ino, OffsetToBno(handles[fh].write_offset)>>
                \notin DOMAIN db.block)
        => Let(handles[fh].write_offset % BLOCK_SIZE, LAMBDA rel :
           Let(db'.block[<<handles[fh].ino,
                           OffsetToBno(handles[fh].write_offset)>>].frame.raw,
               LAMBDA row :
               /\ Len(row) = rel + Min(Len(handles[fh].buf), BLOCK_SIZE - rel)
               /\ \A i \in 1..rel : row[i] = 0
               /\ \A i \in 1..(Len(row) - rel) :
                     row[rel + i] = handles[fh].buf[i]))]_vars

\* C36: iter_blocks_from(ino, offset, f) hands f one Block per row of ino
\* with bno >= offset_to_bno(offset), in ascending order of bno, and each
\* Block carries the bno of its own row, so that its start_offset is that
\* row's bno * BLOCK_SIZE.
C36_IterBlocksOwnBno ==
    \A ino \in DOMAIN db.inode : \A offset \in 0..MaxSize :
        Let(IterBlocksFrom(db, ino, offset), LAMBDA blocks :
        Let(BnosFrom(db, ino, OffsetToBno(offset)), LAMBDA bnos :
            /\ Len(blocks) = Len(bnos)
            /\ \A i \in 1..Len(bnos) :
                  /\ bnos[i] >= OffsetToBno(offset)
                  /\ i > 1 => bnos[i - 1] < bnos[i]
                  /\ blocks[i].block.bno = bnos[i]
                  /\ StartOffset(blocks[i].block) = bnos[i] * BLOCK_SIZE))

\* The request just served began with a flush of handle fh: a flush, a
\* read, or a write at another offset than the one the buffer ends at.
FlushesFirst(r, h) ==
    \/ r.op = "flush"
    \/ r.op = "read"
    \/ r.op = "write" /\ r.args.offset # HandleWriteOffset(h)

\* C39: a failed flush leaves the handle untouched - when FileHandle::flush
\* returns an error on a handle with buffered bytes, the request fails with
\* that error, nothing is committed, and the handle's buffer, cursor and
\* cached size are as before, so that the next flush starts from the same
\* bytes at the same cursor.
C39_FailedFlushKeepsHandle ==
    [][\A fh \in Fhs :
        (/\ reply'.op \in {"flush", "read", "write"}
         /\ reply'.args.fh = fh
         /\ fh \in DOMAIN handles
         /\ handles[fh].buf # <<>>
         /\ FlushesFirst(reply', handles[fh])
         /\ HandleFlush(db, handles[fh], cfg).err \notin {"Ok", "Panic"})
        => (/\ reply'.err = HandleFlush(db, handles[fh], cfg).err
            /\ db' = db
            /\ fh \in DOMAIN handles'
            /\ handles'[fh].buf = handles[fh].buf
            /\ handles'[fh].write_offset = handles[fh].write_offset
            /\ handles'[fh].size = handles[fh].size
            /\ HandleFlush(db', handles'[fh], cfg)
                  = HandleFlush(db, handles[fh], cfg))]_vars

\* A flush request on a handle with buffered bytes has failed, and the
\* handle still holds those bytes at the cursor it had.
C39_Witness ==
    /\ reply.op = "flush"
    /\ reply.err \notin {"Ok", "Panic"}
    /\ hist.phase = "flush"
    /\ hist.len > 0
    /\ reply.args.fh \in DOMAIN handles
    /\ Len(handles[reply.args.fh].buf) = hist.len
    /\ handles[reply.args.fh].write_offset = hist.cursor

\* C40: a rename whose source (parent, name) has no dir_entry row returns
\* success and changes nothing, whatever the destination; dir_entry.remove
\* of such a (parent, name) returns NotFound, the rename query does not.
C40_RenameMissingSource ==
    /\ (reply.op = "rename" /\ hist.phase = "rename" /\ ~hist.src)
          => (reply.err = "Ok" /\ db = hist.before)
    /\ \A p \in Inos, n \in Names :
          ~HasEntry(db, p, n)
             => (/\ DirEntryRemove(db, p, n).err = "NotFound"
                 /\ \A q \in Inos, m \in Names :
                       /\ DirEntryRename(db, p, n, q, m).err = "Ok"
                       /\ DirEntryRename(db, p, n, q, m).db = db)

\* A rename of a name that does not exist, in a tree that has entries, has
\* been answered with success.
C40_Witness ==
    /\ reply.op = "rename"
    /\ reply.err = "Ok"
    /\ hist.phase = "rename"
    /\ ~hist.src
    /\ db = hist.before
    /\ db.dir_entry # <<>>
    /\ ~HasEntry(db, reply.args.parent, reply.args.name)

(***************************************************************************)
(* The sequential specification (test_read_write_cycle,                    *)
(* test_for_corruption): the fresh file is opened through one handle,      *)
(* written front to back in contiguous chunks and then read front to back  *)
(* in chunks through the same handle.  hist keeps what went in and what    *)
(* came out.                                                               *)
(***************************************************************************)
SeqReadSizes == WriteLens \cup {BLOCK_SIZE}

InitSeq ==
    /\ db = FileMknod.db
    /\ handles = <<>>
    /\ slab = EmptySlab
    /\ cfg \in Cfgs
    /\ alive = TRUE
    /\ reply = Reply("mknod", [parent |-> 1, name |-> "a", mode |-> RegMode, umask |-> FileUmask],
                     FileMknod)
    /\ hist = [phase |-> "open", fh |-> 0, written |-> <<>>, readback |-> <<>>,
               roff |-> 0, nw |-> 0, nr |-> 0, ok |-> TRUE]
    /\ budget = MaxSeqRequests

SeqOpen ==
    /\ hist.phase = "open"
    /\ Open(FileIno)
    /\ hist' = [hist EXCEPT !.phase = "write", !.fh = reply'.val,
                            !.ok = reply'.err = "Ok"]

\* The next chunk, written where the previous one ended.
SeqWrite(data) ==
    /\ hist.phase = "write"
    /\ Len(hist.written) + Len(data) <= MaxSize
    /\ Write(hist.fh, Len(hist.written), data)
    /\ hist' = [hist EXCEPT !.written = hist.written \o data,
                            !.nw = hist.nw + 1,
                            !.ok = hist.ok /\ reply'.err = "Ok"]

\* The next read, from where the previous one was asked to end.
SeqRead(size) ==
    /\ hist.phase = "read" \/ (hist.phase = "write" /\ hist.nw > 0)
    /\ hist.roff < Len(hist.written)
    /\ Read(FileIno, hist.fh, hist.roff, size)
    /\ hist' = [hist EXCEPT !.phase = "read",
                            !.readback = IF reply'.err = "Ok"
                                         THEN hist.readback \o reply'.val
                                         ELSE hist.readback,
                            !.roff = hist.roff + size,
                            !.nr = hist.nr + 1,
                            !.ok = hist.ok /\ reply'.err = "Ok"]

NextSeq ==
    \/ SeqOpen
    \/ \E data \in WriteData : SeqWrite(data)
    \/ \E size \in SeqReadSizes : SeqRead(size)

SpecSeq == InitSeq /\ [][NextSeq]_vars

\* C1: write/read round trip - on the fresh file opened through one handle,
\* write(0, B) followed by read(0, len(B)) through the same handle returns
\* exactly B, also for B longer than a block and longer than the buffer.
C1_WriteReadRoundTrip ==
    (/\ hist.phase = "read"
     /\ hist.nw = 1
     /\ hist.nr = 1
     /\ hist.roff = Len(hist.written))
    => (hist.ok /\ hist.readback = hist.written)

\* C2: chunked round trip - after contiguous writes through one handle
\* covering [0, N) and reads through it that cover [0, N) in order, with
\* arbitrary chunk sizes and so arbitrary offsets, the bytes read,
\* concatenated, are the bytes written, concatenated.
C2_ChunkedRoundTrip ==
    (/\ hist.phase = "read"
     /\ hist.roff >= Len(hist.written))
    => (/\ hist.ok
        /\ Len(hist.readback) >= Len(hist.written)
        /\ Take(hist.readback, Len(hist.written)) = hist.written)

(***************************************************************************)
(* The listing specification: a mounted volume whose root directory gets   *)
(* entries by mknod and link and loses them by unlink, and is listed by    *)
(* readdir calls from any cursor.  hist follows a listing that starts at   *)
(* cursor 0 and resumes from the offset of the last entry the kernel       *)
(* accepted, for as long as no other request comes between the calls.      *)
(***************************************************************************)
DirNames == Names \cup {"c"}
Cursors == 0..MaxCursor
Stops == 1..MaxStop

InitDir ==
    /\ db = EnsureRootExists(EmptyDb).db
    /\ handles = <<>>
    /\ slab = EmptySlab
    /\ cfg = DefaultCfg
    /\ alive = TRUE
    /\ reply = Reply("init", <<>>, EnsureRootExists(EmptyDb))
    /\ hist = NoHist
    /\ budget = MaxDirRequests

\* The readdir about to be served resumes the listing hist follows.
Resumes(ino, cursor) ==
    /\ hist.phase = "readdir"
    /\ hist.ino = ino
    /\ hist.cursor = cursor
    /\ ~hist.complete

\* What the readdir about to be served adds to the listing: `cut` says that
\* add answered false on the last entry handed to it, which is then the one
\* entry the reply buffer took, the entries handed before it having met a
\* full buffer; seen are the entries the buffers took so far, cursor the
\* offset of the last of them, complete that list_dir ran out of rows
\* before add answered false.
ReaddirNote(ino, cursor, stop) ==
    LET handed == ReaddirImpl(db, ino, cursor, stop).val
        cut == Len(handed) = stop
        taken == IF cut THEN <<handed[Len(handed)]>> ELSE <<>>
    IN IF cursor # 0 /\ ~Resumes(ino, cursor) THEN NoHist
       ELSE [phase |-> "readdir",
             ino |-> ino,
             cursor |-> IF taken = <<>> THEN cursor ELSE taken[Len(taken)].offset,
             seen |-> IF cursor = 0 THEN taken ELSE hist.seen \o taken,
             cut |-> cut \/ (Resumes(ino, cursor) /\ hist.cut),
             complete |-> ~cut]

NextDir ==
    \/ \E n \in DirNames, m \in {RegMode, FifoMode} :
          Mknod(1, n, m, FileUmask) /\ hist' = NoHist
    \/ \E i \in Inos \ {1}, n \in DirNames : Link(i, 1, n) /\ hist' = NoHist
    \/ \E n \in DirNames : Unlink(1, n) /\ hist' = NoHist
    \/ \E c \in Cursors, k \in Stops :
          Readdir(1, c, k) /\ hist' = ReaddirNote(1, c, k)

SpecDir == InitDir /\ [][NextDir]_vars

\* The dir_entry rows of directory ino.
RowsOf(d, ino) == {i \in DOMAIN d.dir_entry : d.dir_entry[i].parent_ino = ino}

\* C25: readdir resume - readdir(cursor) hands out only entries whose offset
\* is strictly greater than the cursor, in ascending offset order; a listing
\* of an unmodified directory that starts at cursor 0 and resumes each call
\* from the offset of the last entry the kernel accepted has, once list_dir
\* runs out of rows, seen every entry of the directory exactly once,
\* wherever add answered false.
C25_ReaddirResume ==
    [][reply'.op = "readdir"
       => (/\ reply'.err = "Ok"
           /\ \A i \in DOMAIN reply'.val :
                 /\ reply'.val[i].offset > reply'.args.offset
                 /\ i > 1 => reply'.val[i - 1].offset < reply'.val[i].offset
           /\ (hist'.phase = "readdir" /\ hist'.complete)
                 => (/\ Len(hist'.seen) = Cardinality(RowsOf(db, hist'.ino))
                     /\ \A r \in RowsOf(db, hist'.ino) :
                           \E i \in DOMAIN hist'.seen :
                              /\ hist'.seen[i].offset = db.dir_entry[r].rowid
                              /\ hist'.seen[i].name = db.dir_entry[r].name
                              /\ hist'.seen[i].ino = db.dir_entry[r].ino
                              /\ hist'.seen[i].kind
                                    = db.inode[db.dir_entry[r].ino].kind))]_vars

(***************************************************************************)
(* The Block specification (test_block_write_at): one Block value, of any  *)
(* bno and any contents of at most BLOCK_SIZE bytes, to which write_at is  *)
(* applied again and again.  hist keeps the Block before the call and the  *)
(* arguments, reply what the call returned and the Block after it.         *)
(***************************************************************************)
Ones(n) == [i \in 1..n |-> 1]
BlockDatas == UNION {[1..n -> 0..MaxByte] : n \in 0..BLOCK_SIZE}
SrcDatas == {Pattern(t, n) : t \in 1..NumTags, n \in 0..MaxSrc}
               \cup {Ones(n) : n \in 1..MaxSrc}
BlockOffsets == 0..((MaxBno + 2) * BLOCK_SIZE)

InitBlock ==
    /\ db = EnsureRootExists(EmptyDb).db
    /\ handles = <<>>
    /\ slab = EmptySlab
    /\ cfg = DefaultCfg
    /\ alive = TRUE
    /\ \E bno \in 0..MaxBno, data \in BlockDatas :
          reply = [op |-> "block", args |-> <<>>, err |-> "Ok",
                   val |-> [block |-> [ino |-> 2, bno |-> bno, data |-> data],
                            written |-> 0, diff |-> 0]]
    /\ hist = NoHist
    /\ budget = 0

\* b.write_at(o, src) on the Block b that reply holds; a call that panics
\* leaves no Block to go on with.
BlockWriteAt(o, src) ==
    /\ reply.err = "Ok"
    /\ Let(WriteAt(reply.val.block, o, src), LAMBDA w :
           reply' = [op |-> "write_at",
                     args |-> [offset |-> o, data |-> src],
                     err |-> IF w.panic THEN "Panic" ELSE "Ok",
                     val |-> [block |-> w.block, written |-> w.written,
                              diff |-> w.diff]])
    /\ hist' = [phase |-> "write_at", block |-> reply.val.block,
                offset |-> o, data |-> src]
    /\ UNCHANGED <<budget, db, handles, slab, cfg, alive>>

NextBlock == \E o \in BlockOffsets, src \in SrcDatas : BlockWriteAt(o, src)

SpecBlock == InitBlock /\ [][NextBlock]_vars

\* C37: Block::write_at(o, src) on a block with start_offset <= o <
\* end_offset keeps the bytes before position o - start_offset, fills the
\* gap between the old length and that position with zeros, appends
\* min(len(src), BLOCK_SIZE - (o - start_offset)) bytes of src and returns
\* (bytes appended, new length - old length); on an empty block an offset
\* of k and k ones that fit, 2k <= BLOCK_SIZE, give k zeros and k ones and
\* return (k, 2k).
C37_WriteAt ==
    (/\ hist.phase = "write_at"
     /\ StartOffset(hist.block) <= hist.offset
     /\ hist.offset < EndOffset(hist.block))
    => Let(hist.offset - StartOffset(hist.block), LAMBDA rel :
       Let(Min(Len(hist.data), BLOCK_SIZE - rel), LAMBDA n :
           /\ reply.err = "Ok"
           /\ Len(reply.val.block.data) = rel + n
           /\ \A i \in 1..Min(rel, Len(hist.block.data)) :
                 reply.val.block.data[i] = hist.block.data[i]
           /\ \A i \in (Len(hist.block.data) + 1)..rel :
                 reply.val.block.data[i] = 0
           /\ \A i \in 1..n : reply.val.block.data[rel + i] = hist.data[i]
           /\ reply.val.written = n
           /\ reply.val.diff = Len(reply.val.block.data) - Len(hist.block.data)
           /\ (/\ hist.block.data = <<>>
               /\ hist.data = Ones(rel)
               /\ rel > 0
               /\ 2 * rel <= BLOCK_SIZE)
                 => (/\ reply.val.written = rel
                     /\ reply.val.diff = 2 * rel
                     /\ reply.val.block.data = Zeros(rel) \o Ones(rel))))

\* write_at has written ones into an empty block past its start: as many
\* zeros as ones.
C37_Witness ==
    /\ hist.phase = "write_at"
    /\ reply.err = "Ok"
    /\ hist.block.data = <<>>
    /\ hist.offset > StartOffset(hist.block)
    /\ hist.offset < EndOffset(hist.block)
    /\ hist.data = Ones(hist.offset - StartOffset(hist.block))
    /\ reply.val.block.data = Zeros(Len(hist.data)) \o Ones(Len(hist.data))
    /\ reply.val.written = Len(hist.data)
    /\ reply.val.diff = 2 * Len(hist.data)

(***************************************************************************)
(* The link specification: on the initialized volume, any sequence of      *)
(* mknod, link, unlink and rename requests, with any inode number as the   *)
(* parent.                                                                 *)
(***************************************************************************)
InitLink ==
    /\ db = EnsureRootExists(EmptyDb).db
    /\ handles = <<>>
    /\ slab = EmptySlab
    /\ cfg = DefaultCfg
    /\ alive = TRUE
    /\ reply = Reply("init", <<>>, EnsureRootExists(EmptyDb))
    /\ hist = NoHist
    /\ budget = MaxLinkRequests

NextLink ==
    \/ \E p \in Inos, n \in Names, m \in {RegMode, DirMode} :
          Mknod(p, n, m, FileUmask) /\ hist' = NoHist
    \/ \E i \in Inos, p \in Inos, n \in Names : Link(i, p, n) /\ hist' = NoHist
    \/ \E p \in Inos, n \in Names : Unlink(p, n) /\ hist' = NoHist
    \/ \E p \in Inos, n \in Names, q \in Inos, m \in Names :
          Rename(p, n, q, m) /\ hist' = NoHist

SpecLink == InitLink /\ [][NextLink]_vars

\* The dir_entry rows that name inode ino.
LinksTo(d, ino) == {i \in DOMAIN d.dir_entry : d.dir_entry[i].ino = ino}

\* C38: link count matches directory entries - after every request of a
\* sequence of mknod, link, unlink and rename requests, every inode that
\* mknod created has a stored nlink equal to the number of dir_entry rows
\* naming it, and that number is at least 1.
C38_NlinkMatchesEntries ==
    \A ino \in DOMAIN db.inode \ {1} :
        /\ db.inode[ino].nlink = Cardinality(LinksTo(db, ino))
        /\ Cardinality(LinksTo(db, ino)) >= 1

====
